---- MODULE Spec2Model ----
(***************************************************************************)
(* The /api/chat answer-resolution pipeline of backend/server.js, together *)
(* with the data loader, the FAQ embedding memo and the places cache it    *)
(* reads and writes.  Text is modelled as TLA+ strings; every JavaScript   *)
(* string operation the handler uses (toLowerCase, trim, includes, split,  *)
(* the normalizer's regular expressions) is an operator over them.         *)
(***************************************************************************)
EXTENDS Integers, Sequences, FiniteSets, TLC

(***************************************************************************)
(* JavaScript string primitives                                            *)
(***************************************************************************)
CharAt(s, i) == SubSeq(s, i, i)

\* String.prototype.includes
Includes(s, t) == \E i \in 0..(Len(s) - Len(t)) : SubSeq(s, i + 1, i + Len(t)) = t

UpperChars == "ABCDEFGHIJKLMNOPQRSTUVWXYZ"
LowerChars == "abcdefghijklmnopqrstuvwxyz"
DigitChars == "0123456789"

LowerSet == { CharAt(LowerChars, i) : i \in 1..Len(LowerChars) }
UpperSet == { CharAt(UpperChars, i) : i \in 1..Len(UpperChars) }
DigitSet == { CharAt(DigitChars, i) : i \in 1..Len(DigitChars) }

LowerOf == [c \in UpperSet |-> CharAt(LowerChars, CHOOSE i \in 1..Len(UpperChars) : CharAt(UpperChars, i) = c)]
UpperOf == [c \in LowerSet |-> CharAt(UpperChars, CHOOSE i \in 1..Len(LowerChars) : CharAt(LowerChars, i) = c)]

LowerChar(c) == IF c \in UpperSet THEN LowerOf[c] ELSE c

UpperChar(c) == IF c \in LowerSet THEN UpperOf[c] ELSE c

RECURSIVE ToLowerCase(_)
ToLowerCase(s) ==
  IF Len(s) <= 1 THEN LowerChar(s)
  ELSE ToLowerCase(SubSeq(s, 1, Len(s) \div 2)) \o ToLowerCase(SubSeq(s, Len(s) \div 2 + 1, Len(s)))

RECURSIVE ToUpperCase(_)
ToUpperCase(s) ==
  IF Len(s) <= 1 THEN UpperChar(s)
  ELSE ToUpperCase(SubSeq(s, 1, Len(s) \div 2)) \o ToUpperCase(SubSeq(s, Len(s) \div 2 + 1, Len(s)))

\* the characters \s matches among those the model's texts use
IsSpace(c) == c = " " \/ c = "\n" \/ c = "\t"

RECURSIVE TrimStart(_)
TrimStart(s) ==
  IF s # "" /\ IsSpace(CharAt(s, 1)) THEN TrimStart(SubSeq(s, 2, Len(s))) ELSE s

RECURSIVE TrimEnd(_)
TrimEnd(s) ==
  IF s # "" /\ IsSpace(CharAt(s, Len(s))) THEN TrimEnd(SubSeq(s, 1, Len(s) - 1)) ELSE s

\* String.prototype.trim
Trim(s) == TrimEnd(TrimStart(s))

\* .replace(/[^a-z0-9\s]/g, ' ')
RECURSIVE ReplaceNonAlnum(_)
ReplaceNonAlnum(s) ==
  IF s = "" THEN ""
  ELSE IF Len(s) = 1
    THEN IF s \in LowerSet \/ s \in DigitSet \/ IsSpace(s) THEN s ELSE " "
  ELSE ReplaceNonAlnum(SubSeq(s, 1, Len(s) \div 2))
         \o ReplaceNonAlnum(SubSeq(s, Len(s) \div 2 + 1, Len(s)))

\* the characters lo..hi of s with every run of white space replaced by one space: a
\* white space that follows a white space is dropped
RECURSIVE CollapseRange(_, _, _)
CollapseRange(s, lo, hi) ==
  IF lo > hi THEN ""
  ELSE IF lo = hi
    THEN IF ~IsSpace(CharAt(s, lo)) THEN CharAt(s, lo)
         ELSE IF lo > 1 /\ IsSpace(CharAt(s, lo - 1)) THEN "" ELSE " "
  ELSE CollapseRange(s, lo, (lo + hi) \div 2) \o CollapseRange(s, (lo + hi) \div 2 + 1, hi)

\* .replace(/\s+/g, ' ')
CollapseSpaces(s) == CollapseRange(s, 1, Len(s))

\* norm(s): lowercase, punctuation to spaces, runs of whitespace to one space, trim
norm(s) == Trim(CollapseSpaces(ReplaceNonAlnum(ToLowerCase(s))))

\* String.prototype.split(' ')
RECURSIVE SplitSpace(_)
SplitSpace(s) ==
  IF \E i \in 1..Len(s) : CharAt(s, i) = " "
    THEN LET k == CHOOSE i \in 1..Len(s) :
                    CharAt(s, i) = " " /\ \A j \in 1..(i - 1) : CharAt(s, j) # " "
         IN  <<SubSeq(s, 1, k - 1)>> \o SplitSpace(SubSeq(s, k + 1, Len(s)))
    ELSE <<s>>

Min(a, b) == IF a <= b THEN a ELSE b

\* String.prototype.slice(from - 1, to): the characters from..to that exist
Slice(s, from, to) == IF from > Min(to, Len(s)) THEN "" ELSE SubSeq(s, from, Min(to, Len(s)))

(***************************************************************************)
(* Program constants                                                       *)
(***************************************************************************)
\* PLACES_MAX_RESULTS, default '5'
PLACES_MAX_RESULTS == 5
\* PLACES_RADIUS_METERS, default '2000'
PLACES_RADIUS_METERS == 2000
\* EMB_THRESHOLD, default '0.72', in hundredths
EMB_THRESHOLD == 72
\* the floor of findLocalGuidePlace: scored[0].score >= 30
PlaceScoreFloor == 30
\* the cache's time to live, 24 * 60 * 60 * 1000 ms, in hours
CacheTtlHours == 24
\* findBestMatches(..., 5)
TopK == 5
\* callLLMFallback: (topMatches || []).slice(0, 3)
FallbackContextSize == 3

(***************************************************************************)
(* isDirectionsQuestion                                                    *)
(***************************************************************************)
DirectionsMarkers ==
  { "how do i get", "how to get", "directions", "route to", "get to ", "go to ",
    "how can i get", "how can i go", "how do we get", "how do we go", "way to " }

isDirectionsQuestion(message) ==
  LET s == norm(message) IN \E p \in DirectionsMarkers : Includes(s, p)

(***************************************************************************)
(* findLocalGuidePlace                                                     *)
(***************************************************************************)
\* rows of the local guide scoped to the apartment or to ALL, in dataset order
ScopedCandidates(lg, aptId) ==
  LET apt == Trim(aptId)
      InScope(r) == LET rid == Trim(r.apt_id) IN rid = apt \/ ToUpperCase(rid) = "ALL"
  IN  SelectSeq(lg, InScope)

PlaceScore(n, msg, directions) ==
  LET IsTok(t) == Len(t) >= 3
      tokens == SelectSeq(SplitSpace(msg), IsTok)
      Hit(t) == Includes(n, t)
  IN  (IF Includes(msg, n) THEN 100 + Len(n) ELSE 0)
        + Len(SelectSeq(tokens, Hit)) * 5
        + (IF directions THEN 10 ELSE 0)

\* the last of the entries with the greatest score
RECURSIVE BestScoredLast(_)
BestScoredLast(scored) ==
  IF Len(scored) = 1 THEN Head(scored)
  ELSE LET rest == BestScoredLast(Tail(scored))
       IN  IF Head(scored).score > rest.score THEN Head(scored) ELSE rest

\* .sort((a, b) => b.score - a.score)[0]: the sort is stable, so this is the first of
\* the entries with the greatest score
RECURSIVE BestScored(_)
BestScored(scored) ==
  IF Len(scored) = 1 THEN Head(scored)
  ELSE LET rest == BestScored(Tail(scored))
       IN  IF Head(scored).score >= rest.score THEN Head(scored) ELSE rest

\* null, where the code returns a row or null
NoRow == [none |-> TRUE]

IsRow(r) == "name" \in DOMAIN r

findLocalGuidePlaceIn(lg, aptId, message) ==
  LET msg == norm(message)
      directions == isDirectionsQuestion(message)
      HasName(r) == norm(Trim(r.name)) # ""
      named == SelectSeq(ScopedCandidates(lg, aptId), HasName)
      scored == [k \in 1..Len(named) |->
                   [row |-> named[k], score |-> PlaceScore(norm(Trim(named[k].name)), msg, directions)]]
  IN  IF named = <<>> THEN NoRow
      ELSE LET top == BestScored(scored)
           IN  IF top.score >= PlaceScoreFloor THEN top.row ELSE NoRow

(***************************************************************************)
(* "nearest <category>": detectNearestCategoryIntent, distanceToMetres,    *)
(* getNearestFromLocalGuide                                                *)
(***************************************************************************)
NoIntent == [none |-> TRUE]

IsIntent(i) == "label" \in DOMAIN i

\* the phrase groups of detectNearestCategoryIntent, in the order the code tests them
NearestPhraseGroups ==
  << [category |-> "supermarket", label |-> "supermarket",
      phrases |-> { "nearest supermarket", "closest supermarket", "nearest grocery",
                    "closest grocery", "nearest groceries", "nearest grocery store",
                    "closest grocery store", "where is the nearest supermarket",
                    "where is nearest supermarket" }],
     [category |-> "atm", label |-> "ATM",
      phrases |-> { "nearest atm", "closest atm", "nearest cash machine",
                    "closest cash machine", "where is the nearest atm",
                    "where is nearest atm" }],
     [category |-> "pharmacy", label |-> "pharmacy",
      phrases |-> { "nearest pharmacy", "closest pharmacy", "nearest chemist",
                    "closest chemist", "where is the nearest pharmacy",
                    "where is nearest pharmacy" }],
     \* the code's label is "caf\'e" with an accented e, written here without the accent
     [category |-> "cafe", label |-> "cafe",
      phrases |-> { "nearest cafe", "closest cafe", "nearest coffee", "closest coffee" }],
     [category |-> "restaurant", label |-> "restaurant",
      phrases |-> { "nearest restaurant", "closest restaurant", "where can i eat nearby",
                    "eat nearby" }],
     [category |-> "attraction", label |-> "attraction",
      phrases |-> { "nearest attraction", "closest attraction", "things to do nearby",
                    "nearby attractions" }] >>

detectNearestCategoryIntent(message) ==
  LET s == norm(message)
      Matches(g) == \E p \in g.phrases : Includes(s, p)
      hit == SelectSeq(NearestPhraseGroups, Matches)
  IN  IF hit = <<>> THEN NoIntent
      ELSE [category |-> Head(hit).category, label |-> Head(hit).label]

normaliseCategory(s) == ToLowerCase(Trim(s))

\* Distances are kept in thousandths of a metre; Infinity and NaN are two values apart.
Infinity == 1000000000
NaN == -1

DigitValue == [c \in DigitSet |-> (CHOOSE i \in 1..Len(DigitChars) : CharAt(DigitChars, i) = c) - 1]

IsNumChar(c) == c \in DigitSet \/ c = "."

\* the length of the longest prefix of s made of digits (digitsOnly) or of [\d.]
RECURSIVE PrefixLen(_, _)
PrefixLen(s, digitsOnly) ==
  IF s # "" /\ (IF digitsOnly THEN CharAt(s, 1) \in DigitSet ELSE IsNumChar(CharAt(s, 1)))
    THEN 1 + PrefixLen(Slice(s, 2, Len(s)), digitsOnly)
    ELSE 0

RECURSIVE DigitsValue(_)
DigitsValue(s) ==
  IF s = "" THEN 0 ELSE DigitsValue(SubSeq(s, 1, Len(s) - 1)) * 10 + DigitValue[CharAt(s, Len(s))]

\* the thousandths that the digits after the point are worth
Thousandths(digits) == DigitsValue(Slice(digits \o "000", 1, 3))

\* the digits after the point of a text that starts with a point, "" for another text
FractionDigits(rest) ==
  IF rest # "" /\ CharAt(rest, 1) = "."
    THEN Slice(rest, 2, 1 + PrefixLen(Slice(rest, 2, Len(rest)), TRUE))
    ELSE ""

\* the value of the whole digits and the digits after the point, NaN without a digit
FloatOf(ipart, fpart) ==
  IF ipart = "" /\ fpart = "" THEN NaN ELSE DigitsValue(ipart) * 1000 + Thousandths(fpart)

\* parseFloat of a run of digits and dots whose first ni characters are digits
FloatAt(run, ni) == FloatOf(SubSeq(run, 1, ni), FractionDigits(SubSeq(run, ni + 1, Len(run))))

\* parseFloat of a run of digits and dots, in thousandths (decimals past the third are cut)
parseFloat(run) == FloatAt(run, PrefixLen(run, TRUE))

\* the starts of the maximal runs of [\d.] in s
RunStarts(s) ==
  { i \in 1..Len(s) : IsNumChar(CharAt(s, i)) /\ (i = 1 \/ ~IsNumChar(CharAt(s, i - 1))) }

RunAt(s, i) == SubSeq(s, i, i + PrefixLen(SubSeq(s, i, Len(s)), FALSE) - 1)

\* \b after position e of s: the next character is not a word character
IsWordChar(c) == c \in LowerSet \/ c \in UpperSet \/ c \in DigitSet \/ c = "_"

BoundaryAfter(s, e) == e = Len(s) \/ ~IsWordChar(CharAt(s, e + 1))

\* whether the unit is at position p of s (with \b after it when bounded)
UnitAt(s, p, unit, bounded) ==
  /\ p + Len(unit) - 1 <= Len(s)
  /\ SubSeq(s, p, p + Len(unit) - 1) = unit
  /\ (bounded => BoundaryAfter(s, p + Len(unit) - 1))

\* the first position from p on that holds no white space
SkipSpaces(s, p) == Len(s) + 1 - Len(TrimStart(Slice(s, p, Len(s))))

\* whether /([\d.]+)\s*<unit>/ (with \b after the unit when bounded) matches with its
\* number starting at run start i
UnitFollows(s, i, unit, bounded) ==
  UnitAt(s, SkipSpaces(s, i + Len(RunAt(s, i))), unit, bounded)

\* the run that starts first among the starts, or "" without a start
FirstRun(s, starts) ==
  IF starts = {} THEN "" ELSE RunAt(s, CHOOSE i \in starts : \A j \in starts : i <= j)

\* the captured number of the leftmost match of /([\d.]+)\s*(u1|u2|...)/, or "" when none
FirstMatch(s, units, bounded) ==
  FirstRun(s, { i \in RunStarts(s) : \E u \in units : UnitFollows(s, i, u, bounded) })

Times(v, k) == IF v = NaN THEN NaN ELSE v * k

\* the chain of matches of distanceToMetres on the captured numbers
MetresOf(s, km, m, mins, num) ==
  IF s = "" THEN Infinity
  ELSE IF km # "" THEN Times(parseFloat(km), 1000)
  ELSE IF m # "" THEN parseFloat(m)
  ELSE IF mins # "" THEN Times(parseFloat(mins), 80)
  ELSE IF num # "" THEN parseFloat(num)
  ELSE Infinity

\* distanceToMetres on the trimmed, lowercased text
MetresOfText(s) ==
  MetresOf(s, FirstMatch(s, {"km"}, FALSE), FirstMatch(s, {"m"}, TRUE),
           FirstMatch(s, {"min", "mins", "minute", "minutes"}, TRUE), FirstRun(s, RunStarts(s)))

distanceToMetres(distanceStr) == MetresOfText(ToLowerCase(Trim(distanceStr)))

getLocalGuideRowsForAptIn(lg, aptId) ==
  LET id == Trim(aptId)
      Mine(r) == Trim(r.apt_id) = id
  IN  SelectSeq(lg, Mine)

\* (a, b) => distanceToMetres(a.distance) - distanceToMetres(b.distance) is negative
Negative(da, db) == da # NaN /\ db # NaN /\ da < db

DistanceBefore(a, b) == Negative(distanceToMetres(a.distance), distanceToMetres(b.distance))

\* rows.sort(...)[0]: the sort is stable, so the first row is the earliest of the rows
\* no other row compares before
FirstOf(row, rest) == IF DistanceBefore(rest, row) THEN rest ELSE row

RECURSIVE NearestOf(_)
NearestOf(rows) ==
  IF Len(rows) = 1 THEN Head(rows) ELSE FirstOf(Head(rows), NearestOf(Tail(rows)))

NearestOrNone(rows) == IF rows = <<>> THEN NoRow ELSE NearestOf(rows)

\* getNearestFromLocalGuide comparing the category as written in the sheet
getNearestFromLocalGuideRaw(lg, aptId, category) ==
  LET Same(r) == r.category = category
  IN  NearestOrNone(SelectSeq(getLocalGuideRowsForAptIn(lg, aptId), Same))

getNearestFromLocalGuideIn(lg, aptId, category) ==
  LET Same(r) == normaliseCategory(r.category) = normaliseCategory(category)
  IN  NearestOrNone(SelectSeq(getLocalGuideRowsForAptIn(lg, aptId), Same))

(***************************************************************************)
(* detectNearbyIntent                                                      *)
(***************************************************************************)
\* the keyword groups of detectNearbyIntent, in the order the code tests them
NearbyKeywordGroups ==
  << [type |-> "restaurant", label |-> "restaurants",
      words |-> {"restaurant", "eat", "dinner", "lunch", "breakfast"}],
     [type |-> "cafe", label |-> "cafes", words |-> {"cafe", "coffee"}],
     [type |-> "atm", label |-> "ATMs", words |-> {"atm", "cash"}],
     [type |-> "pharmacy", label |-> "pharmacies", words |-> {"pharmacy", "chemist", "medicine"}],
     [type |-> "supermarket", label |-> "supermarkets",
      words |-> {"supermarket", "grocery", "groceries"}],
     [type |-> "tourist_attraction", label |-> "attractions",
      words |-> {"attraction", "things to do", "tourist", "visit"}] >>

\* the classifier without its test for a directions question
detectNearbyIntentOfAny(lg, message) ==
  LET s    == ToLowerCase(message)
      msgN == norm(message)
      hasNamedPlace ==
        \E k \in 1..Len(lg) : LET n == norm(lg[k].name) IN n # "" /\ Includes(msgN, n)
      Matches(g) == \E w \in g.words : Includes(s, w)
      hit  == SelectSeq(NearbyKeywordGroups, Matches)
  IN  IF hasNamedPlace \/ hit = <<>> THEN NoIntent
      ELSE [type |-> Head(hit).type, label |-> Head(hit).label]

detectNearbyIntentIn(lg, message) ==
  LET s    == ToLowerCase(message)
      msgN == norm(message)
      hasNamedPlace ==
        \E k \in 1..Len(lg) : LET n == norm(lg[k].name) IN n # "" /\ Includes(msgN, n)
      Matches(g) == \E w \in g.words : Includes(s, w)
      hit  == SelectSeq(NearbyKeywordGroups, Matches)
  IN  IF isDirectionsQuestion(message) \/ hasNamedPlace \/ hit = <<>> THEN NoIntent
      ELSE [type |-> Head(hit).type, label |-> Head(hit).label]

(***************************************************************************)
(* What the external collaborators hold and may answer                     *)
(***************************************************************************)
\* the LocalGuide sheet
SheetLocalGuide ==
  << [apt_id |-> "A1", category |-> "ATM", name |-> "City ATM", distance |-> "0.5 km",
      description |-> "", maps_link |-> "maps/atm1"],
     [apt_id |-> " A1 ", category |-> " atm", name |-> "Corner Cash", distance |-> "300 m",
      description |-> "Next to the bakery", maps_link |-> ""],
     [apt_id |-> "all", category |-> "supermarket", name |-> "SPAR", distance |-> "2 mins",
      description |-> "", maps_link |-> "maps/spar"] >>

\* the Apartments sheet: A2 has no latitude
SheetApartments ==
  << [apt_id |-> "A1", lat |-> "6.9", lng |-> "79.8"],
     [apt_id |-> "A2", lat |-> "", lng |-> "79.9"] >>

\* the FAQs sheet: two rows of A1, two global rows and an empty global row
SheetFaqs ==
  << [apt_id |-> "A1", question |-> "What is checkout time?", answer |-> "11am", visibility |-> ""],
     [apt_id |-> "", question |-> "Is there parking?", answer |-> "Yes, free.", visibility |-> ""],
     [apt_id |-> " A1", question |-> "Wifi password?", answer |-> "yaka1234", visibility |-> ""],
     [apt_id |-> "*", question |-> " ", answer |-> "", visibility |-> "x"],
     [apt_id |-> "All", question |-> "Pets allowed?", answer |-> "", visibility |-> ""] >>

\* what a sheet read may give: the sheet, or [] when the read failed
LocalGuideReads == { <<>>, SheetLocalGuide }
ApartmentsReads == { <<>>, SheetApartments }
FaqsReads == { <<>>, SheetFaqs }

\* null, where the code holds a vector or null
Null == <<>>

\* the vector the embedding provider returns for a text when it answers: the same
\* vector for the same text, one of them of another length
ProviderEmbedding(text) ==
  CASE text = "What is checkout time?" -> <<0, 5>>
    [] text = "Wifi password?" -> <<4, 3>>
    [] text = "Is there parking?" -> <<5, 0>>
    [] text = "Pets allowed?" -> <<1>>
    [] text = "checkout time" -> <<3, 4>>
    [] text = "route to pharmacy" -> <<3, -4>>
    [] OTHER -> <<5, 0>>

\* what a chat completion may give: a failure, or an answer with one of the contents
ChatFailure == [ok |-> FALSE, content |-> ""]

ChatAnswers(contents) == { ChatFailure } \cup { [ok |-> TRUE, content |-> c] : c \in contents }

\* the content of the language detector's answer
LangContents == { "en", " De.\n", "" }
\* the content of the generative fallback's answer
FallbackContents == { "", " ", " Please ask the host. " }
\* the content of the translator's answer
TranslateContents == { "", " (translated) " }

Place(k) ==
  [name |-> "P" \o ToString(k), vicinity |-> "Street " \o ToString(k),
   rating |-> IF k = 1 THEN "" ELSE "4." \o ToString(k), place_id |-> IF k = 2 THEN "" ELSE "id" \o ToString(k)]

\* what the places request may give: no place, one place, one more place than
\* PLACES_MAX_RESULTS, a status that is not OK, or a failure of the request
PlacesAnswers ==
  { [ok |-> TRUE, status |-> "ZERO_RESULTS", results |-> <<>>],
    [ok |-> TRUE, status |-> "OK", results |-> <<Place(1)>>],
    [ok |-> TRUE, status |-> "OK", results |-> [k \in 1..(PLACES_MAX_RESULTS + 1) |-> Place(k)]],
    [ok |-> TRUE, status |-> "REQUEST_DENIED", results |-> <<>>],
    [ok |-> FALSE, status |-> "", results |-> <<>>] }

\* the environments the process may run in: which keys and credentials are set
Environments ==
  { [openaiKey |-> TRUE, placesKey |-> TRUE, sheetsCreds |-> TRUE],
    [openaiKey |-> TRUE, placesKey |-> FALSE, sheetsCreds |-> TRUE],
    [openaiKey |-> FALSE, placesKey |-> TRUE, sheetsCreds |-> TRUE],
    [openaiKey |-> TRUE, placesKey |-> TRUE, sheetsCreds |-> FALSE] }

(***************************************************************************)
(* State                                                                   *)
(***************************************************************************)
VARIABLES
  env,          \* process.env: which keys and credentials are set
  FAQ_DATA,     \* apartment id -> references to its FAQ items
  GLOBAL_FAQS,  \* references to the global FAQ items
  APARTMENTS,   \* rows of the Apartments sheet
  LOCAL_GUIDE,  \* rows of the LocalGuide sheet
  faqItems,     \* the FAQ item objects ever built; a reference is an index
  placesCache,  \* cache key -> [data, expiresAt]
  clock,        \* Date.now(), in hours
  loads,        \* the calls of loadAllData: load id -> its position
  req           \* the /api/chat requests: request id -> its position and locals

vars == <<env, FAQ_DATA, GLOBAL_FAQS, APARTMENTS, LOCAL_GUIDE, faqItems, placesCache, clock, loads, req>>

dataVars == <<FAQ_DATA, GLOBAL_FAQS, APARTMENTS, LOCAL_GUIDE>>

(***************************************************************************)
(* Bounds                                                                  *)
(***************************************************************************)
\* the admin reloads after the initial load
MaxReloads == 1
\* the hours the clock may advance
MaxClock == 48
\* the step of the clock, in hours
ClockStep == 16

ReqIds == {1, 2}
LoadIds == 0..MaxReloads

(***************************************************************************)
(* Helpers of the handler                                                  *)
(***************************************************************************)
\* a request that has not arrived yet.  seenGuide and seenApartments record the
\* LOCAL_GUIDE and APARTMENTS the routing stages read; context records the matches
\* callLLMFallback put in its prompt; had records the positions of combined whose item
\* the first loop of findBestMatches found with an embedding or gave one; log records,
\* in order, the functions the handler consulted, the external calls it sent and the
\* deletions of its cacheGet.
IdleReq ==
  [pc |-> "idle", apt |-> "", msg |-> "", lang |-> "", status |-> 0, source |-> "",
   reply |-> "", place |-> NoRow, draft |-> "", cacheKey |-> "", label |-> "",
   combined |-> <<>>, userEmb |-> Null, idx |-> 0, topMatches |-> <<>>, context |-> <<>>,
   seenGuide |-> <<>>, seenApartments |-> <<>>, had |-> {}, log |-> <<>>]

Logged(q, events) == [q EXCEPT !.log = q.log \o events]

\* an OpenAI call is sent only when the key is set: getEmbedding and
\* openaiChatCompletion throw before the request otherwise
OpenAiCall(name) == IF env.openaiKey THEN <<name>> ELSE <<>>

getApartmentById(aptId) ==
  LET id == Trim(aptId)
      Same(a) == Trim(a.apt_id) = id
      found == SelectSeq(APARTMENTS, Same)
  IN  IF found = <<>> THEN NoRow ELSE Head(found)

formatLocalGuideNearestReply(row, label) ==
  LET name == IF Trim(row.name) = "" THEN "Unknown place" ELSE Trim(row.name)
      dist == Trim(row.distance)
      desc == Trim(row.description)
      link == Trim(row.maps_link)
  IN  Trim("Nearest " \o label \o ": " \o name
           \o (IF dist # "" THEN " (" \o dist \o " away)." ELSE ".")
           \o (IF desc # "" THEN "\n\nDirections: " \o desc ELSE "")
           \o (IF link # "" THEN "\n\nGoogle Maps:\n" \o link ELSE ""))

\* the code's dash is an em dash, written here as a hyphen
formatLocalGuideReply(placeRow, message) ==
  LET name == Trim(placeRow.name)
      distance == Trim(placeRow.distance)
      desc == Trim(placeRow.description)
      link == Trim(placeRow.maps_link)
  IN  IF isDirectionsQuestion(message)
        THEN Trim("To get to " \o name
                  \o (IF distance # "" THEN " (about " \o distance \o " away)" ELSE "")
                  \o ", open Google Maps and follow the route:\n"
                  \o (IF link # "" THEN link ELSE "(map link not available)")
                  \o (IF desc # "" THEN "\n\nTip: " \o desc ELSE ""))
        ELSE Trim(name
                  \o (IF distance # "" THEN " - about " \o distance \o " away." ELSE "")
                  \o (IF desc # "" THEN "\n" \o desc ELSE "")
                  \o (IF link # "" THEN "\n\nGoogle Maps:\n" \o link ELSE ""))

RECURSIVE JoinLines(_)
JoinLines(lines) ==
  IF lines = <<>> THEN ""
  ELSE IF Len(lines) = 1 THEN Head(lines)
  ELSE Head(lines) \o "\n\n" \o JoinLines(Tail(lines))

\* every place, without the slice
PlacesShownAll(places) == places

\* places.slice(0, PLACES_MAX_RESULTS)
PlacesShown(places) == SubSeq(places, 1, Min(PLACES_MAX_RESULTS, Len(places)))

\* the code's star and em dash are written here as "*" and "-"
PlaceLine(p, i) ==
  ToString(i) \o ". " \o (IF p.name = "" THEN "Unknown" ELSE p.name)
    \o (IF p.rating # "" THEN " - * " \o p.rating ELSE "")
    \o "\n" \o p.vicinity
    \o (IF p.place_id # "" THEN "\nhttps://www.google.com/maps/place/?q=place_id:" \o p.place_id ELSE "")

\* formatPlacesReply, with "" for null
formatPlacesReply(label, places) ==
  IF places = <<>> THEN ""
  ELSE LET shown == PlacesShown(places)
       IN  "Here are some nearby " \o label \o ":\n\n"
             \o JoinLines([i \in 1..Len(shown) |-> PlaceLine(shown[i], i)])

PlacesReplyText(label, places) ==
  IF formatPlacesReply(label, places) # "" THEN formatPlacesReply(label, places)
  ELSE "I couldn't find nearby " \o label \o " right now."

MissingLatLngText ==
  "This apartment doesn't have a location configured yet, so I can't look up nearby places. Please ask the host to add it."

PlacesErrorText == "Sorry - I couldn't fetch nearby places right now. Please try again later."

FinalFallbackText == "I don't have a specific answer for that. Would you like me to notify the host?"

\* the reply returned as it is, whatever the language
RespondUntranslated(q, source, text, place) ==
  [q EXCEPT !.source = source, !.place = place, !.draft = text,
            !.pc = "done", !.status = 200, !.reply = text]

\* `if (userLang !== 'en') replyText = await translateText(replyText, userLang)` and the
\* res.json that follows it: translateText returns an empty text at once, and waits
\* for the chat completion otherwise
Respond(q, source, text, place) ==
  LET q1 == [q EXCEPT !.source = source, !.place = place, !.draft = text]
  IN  IF q.lang = "en"
        THEN [q1 EXCEPT !.pc = "done", !.status = 200, !.reply = text]
      ELSE IF text = ""
        THEN [Logged(q1, <<"translateText">>) EXCEPT !.pc = "done", !.status = 200, !.reply = text]
      ELSE [Logged(q1, <<"translateText">> \o OpenAiCall("openai:translate")) EXCEPT !.pc = "translate"]

(***************************************************************************)
(* FAQ matching: cosineSimilarity, findBestMatches, callLLMFallback        *)
(***************************************************************************)
ISqrt(n) == CHOOSE k \in 0..n : k * k <= n /\ (k + 1) * (k + 1) > n

RECURSIVE Dot(_, _)
Dot(a, b) == IF a = <<>> THEN 0 ELSE Head(a) * Head(b) + Dot(Tail(a), Tail(b))

\* cosineSimilarity, in hundredths; the vectors of the model have whole norms, and the
\* 1e-12 of the denominator only matters when a norm is 0
cosineSimilarity(a, b) ==
  IF a = Null \/ b = Null \/ Len(a) # Len(b) THEN 0
  ELSE LET d == ISqrt(Dot(a, a)) * ISqrt(Dot(b, b))
       IN  IF d = 0 THEN 0 ELSE (100 * Dot(a, b)) \div d

\* x put into a list sorted by descending _score, after the entries that score the same
RECURSIVE InsertByScore(_, _)
InsertByScore(sorted, x) ==
  IF sorted = <<>> THEN <<x>>
  ELSE IF x._score > Head(sorted)._score THEN <<x>> \o sorted
  ELSE <<Head(sorted)>> \o InsertByScore(Tail(sorted), x)

\* scored.sort((a, b) => b._score - a._score): a stable sort
RECURSIVE SortByScore(_)
SortByScore(scored) ==
  IF scored = <<>> THEN <<>>
  ELSE InsertByScore(SortByScore(SubSeq(scored, 1, Len(scored) - 1)), scored[Len(scored)])

\* the second loop of findBestMatches and its sort and slice
ScoreMatches(items, combined, userEmb, topK) ==
  LET Embedded(i) == items[i].embedding # Null
      MatchOf(i) == [question |-> items[i].question, answer |-> items[i].answer,
                     visibility |-> items[i].visibility,
                     _score |-> cosineSimilarity(userEmb, items[i].embedding)]
      kept == SelectSeq(combined, Embedded)
      sorted == SortByScore([k \in 1..Len(kept) |-> MatchOf(kept[k])])
  IN  SubSeq(sorted, 1, Min(topK, Len(sorted)))

\* callLLMFallback handing every match to the chat completion
StartFallbackUnsliced(q) ==
  [Logged(q, <<"callLLMFallback">> \o OpenAiCall("openai:fallback"))
     EXCEPT !.pc = "llm", !.context = q.topMatches]

\* callLLMFallback up to its chat completion
StartFallback(q) ==
  [Logged(q, <<"callLLMFallback">> \o OpenAiCall("openai:fallback"))
     EXCEPT !.pc = "llm",
            !.context = SubSeq(q.topMatches, 1, Min(FallbackContextSize, Len(q.topMatches)))]

\* the handler sending no reply when the best match is below the threshold
AfterMatchesSilent(q, topMatches) ==
  IF topMatches # <<>> /\ topMatches[1]._score >= EMB_THRESHOLD
    THEN Respond([q EXCEPT !.topMatches = topMatches], "faq", topMatches[1].answer, NoRow)
    ELSE [q EXCEPT !.topMatches = topMatches, !.pc = "returned"]

\* the handler from the return of findBestMatches to its next wait
AfterMatches(q, topMatches) ==
  LET q1 == [q EXCEPT !.topMatches = topMatches]
  IN  IF topMatches # <<>> /\ topMatches[1]._score >= EMB_THRESHOLD
        THEN Respond(q1, "faq", topMatches[1].answer, NoRow)
        ELSE StartFallback(q1)

\* the first loop of findBestMatches from position `from` to its next wait, and what
\* follows the loop when no item is left without an embedding
EmbedLoop(q, items, from) ==
  LET missing == { i \in from..Len(q.combined) : items[q.combined[i]].embedding = Null }
      passed  == { i \in from..Len(q.combined) : \A j \in missing : i < j }
  IN  IF missing # {}
        THEN [Logged(q, OpenAiCall("openai:embed_faq"))
                EXCEPT !.pc = "embCand", !.had = @ \cup passed,
                       !.idx = CHOOSE i \in missing : \A j \in missing : i <= j]
        ELSE AfterMatches([q EXCEPT !.had = @ \cup passed],
                          ScoreMatches(items, q.combined, q.userEmb, TopK))

\* findBestMatches(FAQ_DATA[apt] || [], message, 5) up to its first wait
StartMatching(q) ==
  LET aptData  == IF q.apt \in DOMAIN FAQ_DATA THEN FAQ_DATA[q.apt] ELSE <<>>
      combined == aptData \o GLOBAL_FAQS
      q1       == Logged([q EXCEPT !.combined = combined], <<"findBestMatches">>)
  IN  IF combined = <<>> THEN AfterMatches(q1, <<>>)
      ELSE [Logged(q1, OpenAiCall("openai:embed_user")) EXCEPT !.pc = "embUser"]

(***************************************************************************)
(* The places cache and getNearbyPlaces                                    *)
(***************************************************************************)
CacheKey(lat, lng, type, radius) ==
  lat \o "," \o lng \o "|" \o type \o "|" \o ToString(radius)

\* cacheGet: the cache after the lookup (an expired entry is deleted) and whether it hit
CacheAfterGet(cache, key) ==
  IF key \in DOMAIN cache /\ clock > cache[key].expiresAt
    THEN IF DOMAIN cache = {key} THEN <<>> ELSE [k \in DOMAIN cache \ {key} |-> cache[k]]
    ELSE cache

\* an entry counts only when it holds places
CacheHitNonEmpty(cache, key) ==
  key \in DOMAIN cache /\ ~(clock > cache[key].expiresAt) /\ cache[key].data # <<>>

CacheHit(cache, key) == key \in DOMAIN cache /\ ~(clock > cache[key].expiresAt)

cacheSet(cache, key, data, ttl) ==
  [k \in DOMAIN cache \cup {key} |->
     IF k = key THEN [data |-> data, expiresAt |-> clock + ttl] ELSE cache[k]]

\* a catch block of stage 3 that lets the request go on to the FAQ matcher
PlacesFailedOn(q) == StartMatching(q)

\* the catch block of stage 3
PlacesFailed(q) == Respond(q, "google_places_error", PlacesErrorText, NoRow)

\* the end of the try block of stage 3, getNearbyPlaces having returned places
PlacesFound(q, places) ==
  Respond(q, "google_places_legacy", PlacesReplyText(q.label, places), NoRow)

\* whether the apartment row gives a latitude and a longitude
HasLatLng(aptRow) == aptRow # NoRow /\ aptRow.lat # "" /\ aptRow.lng # ""

\* getNearbyPlaces up to its request, for the request q of a guest: without the API
\* key it throws, and an entry of the cache answers at once; the log notes the entry
\* cacheGet deletes
getNearbyPlaces(q, key) ==
  IF ~env.placesKey
    THEN [q |-> PlacesFailed(q), cache |-> placesCache]
  ELSE IF CacheHit(placesCache, key)
    THEN [q |-> PlacesFound(q, placesCache[key].data), cache |-> placesCache]
  ELSE [q |-> [Logged(q, (IF placesCache = CacheAfterGet(placesCache, key)
                             THEN <<>> ELSE <<"placesCache.delete">>) \o <<"google:places">>)
                 EXCEPT !.pc = "places"],
        cache |-> CacheAfterGet(placesCache, key)]

\* stage 3 asking for the places of the intent's label
NearbyLookupByLabel(q, intent, aptRow) ==
  IF ~HasLatLng(aptRow)
    THEN [q |-> Respond(q, "places_missing_latlng", MissingLatLngText, NoRow), cache |-> placesCache]
    ELSE getNearbyPlaces(
           Logged([q EXCEPT !.label = intent.label,
                            !.cacheKey = CacheKey(aptRow.lat, aptRow.lng, intent.label, PLACES_RADIUS_METERS)],
                  <<"getNearbyPlaces">>),
           CacheKey(aptRow.lat, aptRow.lng, intent.label, PLACES_RADIUS_METERS))

\* stage 3 once the apartment's row is read: the reply without a latitude or a
\* longitude, getNearbyPlaces otherwise
NearbyLookup(q, intent, aptRow) ==
  IF ~HasLatLng(aptRow)
    THEN [q |-> Respond(q, "places_missing_latlng", MissingLatLngText, NoRow), cache |-> placesCache]
    ELSE getNearbyPlaces(
           Logged([q EXCEPT !.label = intent.label,
                            !.cacheKey = CacheKey(aptRow.lat, aptRow.lng, intent.type, PLACES_RADIUS_METERS)],
                  <<"getNearbyPlaces">>),
           CacheKey(aptRow.lat, aptRow.lng, intent.type, PLACES_RADIUS_METERS))

\* stage 3 of the handler once detectNearbyIntent gave an intent, up to its next wait:
\* the request, and the cache as getNearbyPlaces leaves it
NearbyStage(q, intent) == NearbyLookup(q, intent, getApartmentById(q.apt))

(***************************************************************************)
(* The handler from the return of detectLanguage to its next wait           *)
(***************************************************************************)
NearestPlace(row) ==
  [category |-> row.category, name |-> row.name, distance |-> row.distance, maps_link |-> row.maps_link]

NamedPlace(row) == [name |-> row.name, distance |-> row.distance, maps_link |-> row.maps_link]

\* stages 3 and 4 once detectNearbyIntent has returned: the places lookup for an
\* intent, the FAQ matcher without one
AfterNearbyIntent(q, intent) ==
  IF IsIntent(intent) THEN NearbyStage(q, intent)
  ELSE [q |-> StartMatching(q), cache |-> placesCache]

\* stages 3 and 4: detectNearbyIntent, then the places lookup or the FAQ matcher
GenericStage(q) ==
  AfterNearbyIntent(Logged(q, <<"detectNearbyIntent">>), detectNearbyIntentIn(LOCAL_GUIDE, q.msg))

\* stage 2 giving the matched place's category for its name
AfterNamedMatchMisnamed(q, matched) ==
  IF IsRow(matched)
    THEN [q |-> Respond(q, "local_guide", formatLocalGuideReply(matched, q.msg),
                        [NamedPlace(matched) EXCEPT !.name = matched.category]),
          cache |-> placesCache]
    ELSE GenericStage(q)

\* stage 2 once findLocalGuidePlace has returned: the reply for the matched place, the
\* stages after it without one
AfterNamedMatch(q, matched) ==
  IF IsRow(matched)
    THEN [q |-> Respond(q, "local_guide", formatLocalGuideReply(matched, q.msg), NamedPlace(matched)),
          cache |-> placesCache]
    ELSE GenericStage(q)

\* stage 2: findLocalGuidePlace, then the stages after it when it finds no place
NamedStage(q) ==
  AfterNamedMatch(Logged(q, <<"findLocalGuidePlace">>), findLocalGuidePlaceIn(LOCAL_GUIDE, q.apt, q.msg))

\* stage 1 once getNearestFromLocalGuide has returned: the reply for the nearest row,
\* the stages after it without one
AfterNearestRow(q, nearest, nearestRow) ==
  IF IsRow(nearestRow)
    THEN [q |-> Respond(q, "local_guide_nearest",
                        formatLocalGuideNearestReply(nearestRow, nearest.label),
                        NearestPlace(nearestRow)),
          cache |-> placesCache]
    ELSE NamedStage(q)

\* stage 1 once detectNearestCategoryIntent has returned
AfterNearestIntent(q, nearest) ==
  IF IsIntent(nearest)
    THEN AfterNearestRow(Logged(q, <<"detectNearestCategoryIntent", "getNearestFromLocalGuide">>),
                         nearest, getNearestFromLocalGuideIn(LOCAL_GUIDE, q.apt, nearest.category))
    ELSE NamedStage(Logged(q, <<"detectNearestCategoryIntent">>))

\* stages 1 to 4 for a request that reads the datasets now
NearestStage(q) == AfterNearestIntent(q, detectNearestCategoryIntent(q.msg))

\* the handler from the return of detectLanguage to its next wait
Route(q0) == NearestStage([q0 EXCEPT !.seenGuide = LOCAL_GUIDE, !.seenApartments = APARTMENTS])

(***************************************************************************)
(* loadAllData                                                             *)
(***************************************************************************)
normaliseAptId(v) == Trim(v)

isGlobalAptId(aptRaw) ==
  LET u == ToUpperCase(normaliseAptId(aptRaw))
  IN  u = "" \/ u = "ALL" \/ u = "GLOBAL" \/ u = "ALL APARTMENTS" \/ u = "*"

\* the rows of the FAQs sheet that loadAllData keeps: every apartment row, and the
\* global rows with a question or an answer
KeptFaqRows(rows) ==
  LET Kept(r) == ~isGlobalAptId(r.apt_id) \/ Trim(r.question) # "" \/ Trim(r.answer) # ""
  IN  SelectSeq(rows, Kept)

\* the items loadAllData builds for the kept rows, each without an embedding
ItemsOf(kept) ==
  [k \in 1..Len(kept) |->
     [question |-> kept[k].question, answer |-> kept[k].answer,
      visibility |-> kept[k].visibility, embedding |-> Null]]

NewFaqItems(rows) == ItemsOf(KeptFaqRows(rows))

\* the positions 1..n counted from base that are wanted, in order
RefsWhere(base, n, wanted) ==
  LET Wanted(k) == (k - base) \in wanted
  IN  SelectSeq([k \in 1..n |-> base + k], Wanted)

\* faqMap: apartment id -> references to its items, the items being stored from base + 1 on
FaqMapOf(kept, base) ==
  [a \in { normaliseAptId(kept[k].apt_id) : k \in { j \in 1..Len(kept) : ~isGlobalAptId(kept[j].apt_id) } } |->
     RefsWhere(base, Len(kept),
               { k \in 1..Len(kept) : ~isGlobalAptId(kept[k].apt_id) /\ normaliseAptId(kept[k].apt_id) = a })]

NewFaqMap(rows, base) == FaqMapOf(KeptFaqRows(rows), base)

\* globalFaqs: references to the items of the global rows
GlobalRefsOf(kept, base) ==
  RefsWhere(base, Len(kept), { k \in 1..Len(kept) : isGlobalAptId(kept[k].apt_id) })

NewGlobalFaqs(rows, base) == GlobalRefsOf(KeptFaqRows(rows), base)

\* loadAllData is called and runs up to `await jwt.authorize()`: without credentials
\* it returns at once
StartLoad(k) ==
  /\ loads[k] = "idle"
  /\ loads' = [loads EXCEPT ![k] = IF env.sheetsCreds THEN "loading" ELSE "done"]
  /\ UNCHANGED <<env, dataVars, faqItems, placesCache, clock, req>>

\* POST /admin/reload-sheets with the right secret
AdminReload(k) == k # 0 /\ StartLoad(k)

\* jwt.authorize() threw: loadAllData logs the error and returns
AuthorizeFails(k) ==
  /\ loads[k] = "loading"
  /\ loads' = [loads EXCEPT ![k] = "done"]
  /\ UNCHANGED <<env, dataVars, faqItems, placesCache, clock, req>>

\* jwt.authorize() and the three sheet reads have returned (a failed read gives []):
\* the four globals are assigned
SheetsReturn(k, localGuideRows, apartmentsRows, faqsRows) ==
  /\ loads[k] = "loading"
  /\ loads' = [loads EXCEPT ![k] = "done"]
  /\ faqItems' = faqItems \o NewFaqItems(faqsRows)
  /\ FAQ_DATA' = NewFaqMap(faqsRows, Len(faqItems))
  /\ GLOBAL_FAQS' = NewGlobalFaqs(faqsRows, Len(faqItems))
  /\ APARTMENTS' = apartmentsRows
  /\ LOCAL_GUIDE' = localGuideRows
  /\ UNCHANGED <<env, placesCache, clock, req>>

(***************************************************************************)
(* POST /api/chat                                                          *)
(***************************************************************************)
\* the request arrives: 400 without apt or message, detectLanguage otherwise
Receive(r, apt, message) ==
  /\ req[r].pc = "idle"
  /\ req' = [req EXCEPT ![r] =
       IF apt = "" \/ message = ""
         THEN [@ EXCEPT !.pc = "done", !.apt = apt, !.msg = message, !.status = 400]
         ELSE [Logged(@, <<"detectLanguage">> \o OpenAiCall("openai:detect"))
                 EXCEPT !.pc = "lang", !.apt = apt, !.msg = message]]
  /\ UNCHANGED <<env, dataVars, faqItems, placesCache, clock, loads>>

\* the first run of letters of the trimmed, lowercased content, or 'en'
LangToken(content) ==
  LET code  == ToLowerCase(Trim(content))
      n     == CHOOSE k \in 0..Len(code) :
                 /\ \A i \in 1..k : CharAt(code, i) \in LowerSet
                 /\ (k = Len(code) \/ CharAt(code, k + 1) \notin LowerSet)
      token == SubSeq(code, 1, n)
  IN  IF token = "" THEN "en" ELSE token

\* detectLanguage returns (ok, with the completion's content) or fails (the language
\* is then 'en'); stages 1 to 4 run up to the next wait
LangReturn(r, answer) ==
  /\ req[r].pc = "lang"
  /\ answer.ok => env.openaiKey
  /\ \E out \in { Route([req[r] EXCEPT !.lang = IF answer.ok THEN LangToken(answer.content)
                                                               ELSE "en"]) } :
       /\ req' = [req EXCEPT ![r] = out.q]
       /\ placesCache' = out.cache
  /\ UNCHANGED <<env, dataVars, faqItems, clock, loads>>

\* the return of the provider, a failure being stored as an empty list of places
PlacesReturnStoresFailure(r, answer) ==
  /\ req[r].pc = "places"
  /\ IF answer.ok /\ answer.status \in {"OK", "ZERO_RESULTS"}
       THEN /\ placesCache' = cacheSet(placesCache, req[r].cacheKey, answer.results, CacheTtlHours)
            /\ req' = [req EXCEPT ![r] = PlacesFound(@, answer.results)]
       ELSE /\ placesCache' = cacheSet(placesCache, req[r].cacheKey, <<>>, CacheTtlHours)
            /\ req' = [req EXCEPT ![r] = PlacesFailed(@)]
  /\ UNCHANGED <<env, dataVars, faqItems, clock, loads>>

\* the places request returns: a network failure, a status that is not OK or
\* ZERO_RESULTS, or results, which are cached for CacheTtlHours
PlacesReturn(r, answer) ==
  /\ req[r].pc = "places"
  /\ IF answer.ok /\ answer.status \in {"OK", "ZERO_RESULTS"}
       THEN /\ placesCache' = cacheSet(placesCache, req[r].cacheKey, answer.results, CacheTtlHours)
            /\ req' = [req EXCEPT ![r] = PlacesFound(@, answer.results)]
       ELSE /\ placesCache' = placesCache
            /\ req' = [req EXCEPT ![r] = PlacesFailed(@)]
  /\ UNCHANGED <<env, dataVars, faqItems, clock, loads>>

\* getEmbedding(userMessage) returns, its failure reaching the handler's catch block
EmbedUserReturnThrows(r, ok) ==
  /\ req[r].pc = "embUser"
  /\ ok => env.openaiKey
  /\ req' = [req EXCEPT ![r] =
       IF ok THEN EmbedLoop([@ EXCEPT !.userEmb = ProviderEmbedding(req[r].msg)], faqItems, 1)
             ELSE [@ EXCEPT !.pc = "done", !.status = 500]]
  /\ UNCHANGED <<env, dataVars, faqItems, placesCache, clock, loads>>

\* getEmbedding(userMessage) returns and the candidates are taken from FAQ_DATA and
\* GLOBAL_FAQS only then
EmbedUserReturnRereads(r, ok) ==
  /\ req[r].pc = "embUser"
  /\ ok => env.openaiKey
  /\ req' = [req EXCEPT ![r] =
       IF ok THEN EmbedLoop([@ EXCEPT !.userEmb = ProviderEmbedding(req[r].msg),
                                      !.combined = (IF req[r].apt \in DOMAIN FAQ_DATA
                                                      THEN FAQ_DATA[req[r].apt] ELSE <<>>)
                                                   \o GLOBAL_FAQS],
                            faqItems, 1)
             ELSE AfterMatches(@, <<>>)]
  /\ UNCHANGED <<env, dataVars, faqItems, placesCache, clock, loads>>

\* getEmbedding(userMessage) returns, the candidates being embedded and scored even
\* when it failed
EmbedUserReturnGoesOn(r, ok) ==
  /\ req[r].pc = "embUser"
  /\ ok => env.openaiKey
  /\ req' = [req EXCEPT ![r] =
       EmbedLoop([@ EXCEPT !.userEmb = IF ok THEN ProviderEmbedding(req[r].msg) ELSE Null],
                 faqItems, 1)]
  /\ UNCHANGED <<env, dataVars, faqItems, placesCache, clock, loads>>

\* getEmbedding(userMessage) returns: no matches when it failed, else the first loop
EmbedUserReturn(r, ok) ==
  /\ req[r].pc = "embUser"
  /\ ok => env.openaiKey
  /\ req' = [req EXCEPT ![r] =
       IF ok THEN EmbedLoop([@ EXCEPT !.userEmb = ProviderEmbedding(req[r].msg)], faqItems, 1)
             ELSE AfterMatches(@, <<>>)]
  /\ UNCHANGED <<env, dataVars, faqItems, placesCache, clock, loads>>

\* getEmbedding(f.question) returns, its failure ending the matching with no match
EmbedFaqReturnGivesUp(r, ok) ==
  /\ req[r].pc = "embCand"
  /\ ok => env.openaiKey
  /\ \E items \in { [faqItems EXCEPT ![req[r].combined[req[r].idx]].embedding =
                       IF ok THEN ProviderEmbedding(faqItems[req[r].combined[req[r].idx]].question)
                             ELSE Null] } :
       /\ faqItems' = items
       /\ req' = [req EXCEPT ![r] = IF ok THEN EmbedLoop(@, items, @.idx + 1)
                                          ELSE Respond(@, "fallback", FinalFallbackText, NoRow)]
  /\ UNCHANGED <<env, dataVars, placesCache, clock, loads>>

\* getEmbedding(f.question) returns, its failure leading to a second call for the item
EmbedFaqReturnRetries(r, ok) ==
  /\ req[r].pc = "embCand"
  /\ ok => env.openaiKey
  /\ \E items \in { [faqItems EXCEPT ![req[r].combined[req[r].idx]].embedding =
                       IF ok THEN ProviderEmbedding(faqItems[req[r].combined[req[r].idx]].question)
                             ELSE Null] } :
       /\ faqItems' = items
       /\ req' = [req EXCEPT ![r] = IF ok THEN EmbedLoop(@, items, @.idx + 1)
                                          ELSE EmbedLoop(@, items, @.idx)]
  /\ UNCHANGED <<env, dataVars, placesCache, clock, loads>>

\* getEmbedding(f.question) returns: f._embedding is the vector, or null when it failed
EmbedFaqReturn(r, ok) ==
  /\ req[r].pc = "embCand"
  /\ ok => env.openaiKey
  /\ LET ref   == req[r].combined[req[r].idx]
         items == [faqItems EXCEPT ![ref].embedding =
                     IF ok THEN ProviderEmbedding(faqItems[ref].question) ELSE Null]
     IN  /\ faqItems' = items
         /\ req' = [req EXCEPT ![r] =
              EmbedLoop([@ EXCEPT !.had = IF ok THEN @ \cup {req[r].idx} ELSE @], items, @.idx + 1)]
  /\ UNCHANGED <<env, dataVars, placesCache, clock, loads>>

\* the chat completion of callLLMFallback returns and its text is taken untrimmed
FallbackReturnUntrimmed(r, answer) ==
  /\ req[r].pc = "llm"
  /\ answer.ok => env.openaiKey
  /\ LET llmReply == IF answer.ok THEN answer.content ELSE ""
     IN  req' = [req EXCEPT ![r] =
           IF llmReply # ""
             THEN [@ EXCEPT !.pc = "done", !.status = 200, !.source = "llm_fallback", !.reply = llmReply]
             ELSE Respond(@, "fallback", FinalFallbackText, NoRow)]
  /\ UNCHANGED <<env, dataVars, faqItems, placesCache, clock, loads>>

\* the chat completion of callLLMFallback returns: its trimmed text answers the guest,
\* and the final fallback does when it failed or gave no text
FallbackReturn(r, answer) ==
  /\ req[r].pc = "llm"
  /\ answer.ok => env.openaiKey
  /\ LET llmReply == IF answer.ok /\ answer.content # "" THEN Trim(answer.content) ELSE ""
     IN  req' = [req EXCEPT ![r] =
           IF llmReply # ""
             THEN [@ EXCEPT !.pc = "done", !.status = 200, !.source = "llm_fallback", !.reply = llmReply]
             ELSE Respond(@, "fallback", FinalFallbackText, NoRow)]
  /\ UNCHANGED <<env, dataVars, faqItems, placesCache, clock, loads>>

\* the chat completion of translateText returns, and no text is left when it failed
TranslateReturnLosesText(r, answer) ==
  /\ req[r].pc = "translate"
  /\ answer.ok => env.openaiKey
  /\ req' = [req EXCEPT ![r] =
       [@ EXCEPT !.pc = "done", !.status = 200,
                 !.reply = IF answer.ok THEN Trim(answer.content) ELSE ""]]
  /\ UNCHANGED <<env, dataVars, faqItems, placesCache, clock, loads>>

\* the chat completion of translateText returns: the trimmed translation, or the text
\* itself when it failed or gave none
TranslateReturn(r, answer) ==
  /\ req[r].pc = "translate"
  /\ answer.ok => env.openaiKey
  /\ req' = [req EXCEPT ![r] =
       [@ EXCEPT !.pc = "done", !.status = 200,
                 !.reply = IF answer.ok /\ Trim(answer.content) # ""
                             THEN Trim(answer.content) ELSE req[r].draft]]
  /\ UNCHANGED <<env, dataVars, faqItems, placesCache, clock, loads>>

\* time passes; the clock is read only against the entries of the cache
Tick ==
  /\ placesCache # <<>>
  /\ clock + ClockStep <= MaxClock
  /\ clock' = clock + ClockStep
  /\ UNCHANGED <<env, dataVars, faqItems, placesCache, loads, req>>

(***************************************************************************)
(* Specifications                                                          *)
(***************************************************************************)
\* the apartment ids and the messages the guests send
AptInputs == { "A1", "A2", "" }

Messages ==
  { "Nearest ATM?", "nearest pharmacy", "closest atm near SPAR", "nearest pharmacy and lunch",
    "things-to-do nearby", "how do i get to spar", "checkout time", "good Coffee",
    "route to pharmacy", "" }

\* the state after construction: nothing loaded, loadAllData() called once
Init ==
  /\ env \in Environments
  /\ FAQ_DATA = <<>>
  /\ GLOBAL_FAQS = <<>>
  /\ APARTMENTS = <<>>
  /\ LOCAL_GUIDE = <<>>
  /\ faqItems = <<>>
  /\ placesCache = <<>>
  /\ clock = 0
  /\ loads = [k \in LoadIds |-> IF k # 0 THEN "idle" ELSE IF env.sheetsCreds THEN "loading" ELSE "done"]
  /\ req = [r \in ReqIds |-> IdleReq]

LoaderStep ==
  \/ \E k \in LoadIds : AdminReload(k)
  \/ \E k \in LoadIds : AuthorizeFails(k)
  \/ \E k \in LoadIds, lg \in LocalGuideReads, ap \in ApartmentsReads, fq \in FaqsReads :
       SheetsReturn(k, lg, ap, fq)

ReturnStep(r) ==
  \/ \E a \in ChatAnswers(LangContents) : LangReturn(r, a)
  \/ \E a \in PlacesAnswers : PlacesReturn(r, a)
  \/ \E ok \in BOOLEAN : EmbedUserReturn(r, ok)
  \/ \E ok \in BOOLEAN : EmbedFaqReturn(r, ok)
  \/ \E a \in ChatAnswers(FallbackContents) : FallbackReturn(r, a)
  \/ \E a \in ChatAnswers(TranslateContents) : TranslateReturn(r, a)

\* one guest
Next ==
  \/ \E apt \in AptInputs, m \in Messages : Receive(1, apt, m)
  \/ ReturnStep(1)
  \/ LoaderStep
  \/ Tick

Spec == Init /\ [][Next]_vars

(***************************************************************************)
(* Properties of the reply order                                           *)
(***************************************************************************)
Consulted(q, what) == \E i \in 1..Len(q.log) : q.log[i] = what

\* stages 1 to 4 have run for the request
Routed(q) == Consulted(q, "detectNearestCategoryIntent")

\* the apartment has a local-guide entry of the category
HasEntryOfCategory(lg, apt, category) ==
  \E k \in 1..Len(lg) :
    /\ Trim(lg[k].apt_id) = Trim(apt)
    /\ ToLowerCase(Trim(lg[k].category)) = category

\* an entry in the apartment's scope whose whole name is in the message
NamesScopedEntry(lg, apt, message) ==
  \E k \in 1..Len(lg) :
    /\ Trim(lg[k].apt_id) = Trim(apt) \/ ToUpperCase(Trim(lg[k].apt_id)) = "ALL"
    /\ norm(lg[k].name) # ""
    /\ Includes(norm(message), norm(lg[k].name))

AfterNearest == { "findLocalGuidePlace", "detectNearbyIntent", "getNearbyPlaces", "google:places",
                  "findBestMatches", "openai:embed_user", "openai:embed_faq",
                  "callLLMFallback", "openai:fallback" }

AfterNearby == { "findBestMatches", "openai:embed_user", "openai:embed_faq",
                 "callLLMFallback", "openai:fallback" }

\* C1: a request whose message has a nearest-category phrase for a category of which
\* the apartment has a local-guide entry is answered with source local_guide_nearest,
\* and no later stage is consulted for it
C1_NearestFirst ==
  \A r \in ReqIds :
    LET q == req[r]
        intent == detectNearestCategoryIntent(q.msg)
    IN  (Routed(q) /\ IsIntent(intent) /\ HasEntryOfCategory(q.seenGuide, q.apt, intent.category))
          => /\ q.source = "local_guide_nearest"
             /\ IsRow(q.place) /\ ToLowerCase(Trim(q.place.category)) = intent.category
             /\ \A what \in AfterNearest : ~Consulted(q, what)

\* a request answered from the nearest-category stage although its message holds the
\* whole name of an entry in its scope
C1_Witness ==
  \E r \in ReqIds :
    /\ req[r].pc = "done" /\ req[r].source = "local_guide_nearest"
    /\ NamesScopedEntry(req[r].seenGuide, req[r].apt, req[r].msg)

\* C2: a request with a nearest-category intent for a category of which the apartment
\* has no entry goes on to the named-place matcher, and is answered with source
\* local_guide and the matched entry as its place when the matcher returns one
C2_NearestMissGoesToNamed ==
  \A r \in ReqIds :
    LET q == req[r]
        intent == detectNearestCategoryIntent(q.msg)
        matched == findLocalGuidePlaceIn(q.seenGuide, q.apt, q.msg)
    IN  (Routed(q) /\ IsIntent(intent) /\ ~HasEntryOfCategory(q.seenGuide, q.apt, intent.category))
          => /\ Consulted(q, "findLocalGuidePlace")
             /\ q.source # "local_guide_nearest"
             /\ IsRow(matched) =>
                  /\ q.source = "local_guide"
                  /\ q.place = [name |-> matched.name, distance |-> matched.distance,
                                maps_link |-> matched.maps_link]

\* a request with a nearest-category intent and no entry of the category, answered by
\* the named-place matcher
C2_Witness ==
  \E r \in ReqIds :
    /\ req[r].pc = "done" /\ req[r].source = "local_guide"
    /\ IsIntent(detectNearestCategoryIntent(req[r].msg))
    /\ ~HasEntryOfCategory(req[r].seenGuide, req[r].apt,
                           detectNearestCategoryIntent(req[r].msg).category)

PlacesSources == { "google_places_legacy", "places_missing_latlng", "google_places_error" }

\* C3: once the generic-nearby classifier has returned an intent for a request, the
\* FAQ matcher and the fallback are never consulted for it, and its source is one of
\* google_places_legacy, places_missing_latlng and google_places_error
C3_NearbyNeverFaq ==
  \A r \in ReqIds :
    LET q == req[r]
    IN  (Consulted(q, "detectNearbyIntent") /\ IsIntent(detectNearbyIntentIn(q.seenGuide, q.msg)))
          => /\ \A what \in AfterNearby : ~Consulted(q, what)
             /\ q.pc \in {"places", "translate", "done"}
             /\ q.pc # "places" => q.source \in PlacesSources

\* a request with a nearby intent whose places request failed and which is answered
C3_Witness ==
  \E r \in ReqIds :
    /\ req[r].pc = "done" /\ req[r].source = "google_places_error"
    /\ Consulted(req[r], "google:places")

\* the apartment of the request is unknown, or lacks a latitude or a longitude
LacksLatLng(q) ==
  LET mine == { k \in 1..Len(q.seenApartments) : Trim(q.seenApartments[k].apt_id) = Trim(q.apt) }
  IN  \/ mine = {}
      \/ \E k \in mine : /\ \A j \in mine : k <= j
                         /\ q.seenApartments[k].lat = "" \/ q.seenApartments[k].lng = ""

\* the names of the places that a text lists
ListedIn(text) ==
  { k \in 1..(PLACES_MAX_RESULTS + 1) : \/ Includes(text, ". P" \o ToString(k) \o " ")
                                        \/ Includes(text, ". P" \o ToString(k) \o "\n") }

\* C4: a request with a nearby intent whose apartment is unknown or lacks a latitude
\* or a longitude gets places_missing_latlng without a call of the places provider;
\* places from the provider give google_places_legacy with at most PLACES_MAX_RESULTS
\* of them listed; no place gives google_places_legacy with an apology that nothing
\* was found nearby; a failure, a missing API key included, gives google_places_error
C4_PlacesOutcomes ==
  /\ [][\A r \in ReqIds, a \in PlacesAnswers :
          PlacesReturn(r, a) =>
            IF a.ok /\ a.status \in {"OK", "ZERO_RESULTS"} /\ a.results # <<>>
              THEN /\ req'[r].source = "google_places_legacy"
                   /\ ListedIn(req'[r].draft) = 1..Min(PLACES_MAX_RESULTS, Len(a.results))
            ELSE IF a.ok /\ a.status \in {"OK", "ZERO_RESULTS"}
              THEN /\ req'[r].source = "google_places_legacy"
                   /\ req'[r].draft = "I couldn't find nearby " \o req[r].label \o " right now."
            ELSE req'[r].source = "google_places_error"]_vars
  /\ [](\A r \in ReqIds :
          LET q == req[r]
              intent == detectNearbyIntentIn(q.seenGuide, q.msg)
          IN  (Consulted(q, "detectNearbyIntent") /\ IsIntent(intent))
                => /\ LacksLatLng(q) => /\ q.source = "places_missing_latlng"
                                        /\ ~Consulted(q, "google:places")
                                        /\ ~Consulted(q, "getNearbyPlaces")
                   /\ (~LacksLatLng(q) /\ ~env.placesKey)
                        => /\ q.source = "google_places_error"
                           /\ ~Consulted(q, "google:places"))

\* a request answered with the first PLACES_MAX_RESULTS of the places the provider gave
C4_Witness ==
  \E r \in ReqIds :
    /\ req[r].pc = "done" /\ req[r].source = "google_places_legacy"
    /\ ListedIn(req[r].reply) = 1..PLACES_MAX_RESULTS

\* the place type of the generic-nearby classifier that corresponds to a category
NearbyTypeOf(category) == IF category = "attraction" THEN "tourist_attraction" ELSE category

\* the key under which places of a type are looked up for the request's apartment
KeyFor(q, type) ==
  LET mine == { k \in 1..Len(q.seenApartments) : Trim(q.seenApartments[k].apt_id) = Trim(q.apt) }
      first == CHOOSE k \in mine : \A j \in mine : k <= j
  IN  q.seenApartments[first].lat \o "," \o q.seenApartments[first].lng \o "|" \o type
        \o "|" \o ToString(PLACES_RADIUS_METERS)

\* a keyword of a group before the category's own group is in the lowercased message
EarlierKeyword(message, category) ==
  \E i \in 1..Len(NearbyKeywordGroups) :
    /\ \E j \in (i + 1)..Len(NearbyKeywordGroups) : NearbyKeywordGroups[j].type = NearbyTypeOf(category)
    /\ \E w \in NearbyKeywordGroups[i].words : Includes(ToLowerCase(message), w)

\* the request has a nearest-category intent for a category without an entry
NearestMiss(q) ==
  /\ Routed(q)
  /\ IsIntent(detectNearestCategoryIntent(q.msg))
  /\ ~HasEntryOfCategory(q.seenGuide, q.apt, detectNearestCategoryIntent(q.msg).category)

\* C5 as stated: a request with a nearest-category phrase for a category of which the
\* apartment has no entry reaches the generic-nearby classifier, which yields the type
\* corresponding to the category, and the places provider is queried for that type
C5_AsStated ==
  \A r \in ReqIds :
    LET q == req[r]
        category == detectNearestCategoryIntent(q.msg).category
    IN  NearestMiss(q)
          => /\ Consulted(q, "detectNearbyIntent")
             /\ Consulted(q, "google:places")
             /\ Includes(q.cacheKey, "|" \o NearbyTypeOf(category) \o "|")

\* C5: a request with a nearest-category phrase for a category of which the apartment
\* has no entry does not stop at the nearest-category stage; the generic-nearby
\* classifier is consulted exactly when the named-place matcher returns no entry; the
\* type it yields is the one corresponding to the category unless a keyword of an
\* earlier keyword group is in the message; and the places provider is queried, for the
\* type the classifier yielded, only when it yielded one and the apartment has a
\* latitude and a longitude and the API key is set, and then always unless the cache
\* answers
C5_FallThrough ==
  \A r \in ReqIds :
    LET q == req[r]
        category == detectNearestCategoryIntent(q.msg).category
        matched == findLocalGuidePlaceIn(q.seenGuide, q.apt, q.msg)
        nearby == detectNearbyIntentIn(q.seenGuide, q.msg)
        askable == ~IsRow(matched) /\ IsIntent(nearby) /\ ~LacksLatLng(q) /\ env.placesKey
    IN  NearestMiss(q)
          => /\ q.source # "local_guide_nearest"
             /\ Consulted(q, "detectNearbyIntent") <=> ~IsRow(matched)
             /\ (IsIntent(nearby) /\ ~EarlierKeyword(q.msg, category))
                  => nearby.type = NearbyTypeOf(category)
             /\ Consulted(q, "google:places") => askable
             /\ askable => /\ Consulted(q, "getNearbyPlaces")
                           /\ q.cacheKey = KeyFor(q, nearby.type)
                           /\ \/ Consulted(q, "google:places")
                              \/ q.source = "google_places_legacy"

\* a request with a nearest-category phrase for a category without an entry, for which
\* the places provider was queried for the corresponding type
C5_Witness ==
  \E r \in ReqIds :
    /\ NearestMiss(req[r]) /\ req[r].pc = "done"
    /\ Consulted(req[r], "google:places")
    /\ req[r].cacheKey
         = KeyFor(req[r], NearbyTypeOf(detectNearestCategoryIntent(req[r].msg).category))

\* findBestMatches has returned for the request
Matched(q) == Consulted(q, "findBestMatches") /\ q.pc \notin {"embUser", "embCand"}

\* C6: a request that reaches the FAQ stage has source faq exactly when the ranked list
\* is not empty and its first score is at least the threshold; its text is then the
\* first match's answer and the generative fallback is not called; otherwise the
\* generative fallback is called with the first three entries of the ranked list
C6_FaqThreshold ==
  \A r \in ReqIds :
    LET q == req[r]
        ranked == q.topMatches
        accepted == ranked # <<>> /\ ranked[1]._score >= EMB_THRESHOLD
    IN  Matched(q)
          => /\ q.source = "faq" <=> accepted
             /\ accepted => /\ q.draft = ranked[1].answer
                            /\ ~Consulted(q, "callLLMFallback")
                            /\ ~Consulted(q, "openai:fallback")
             /\ ~accepted => /\ Consulted(q, "callLLMFallback")
                             /\ q.context = [i \in 1..Min(3, Len(ranked)) |-> ranked[i]]

\* a request below the threshold whose ranked list has more than three entries, and a
\* ranked list always in descending order of score
C6_Witness ==
  \E r \in ReqIds :
    /\ Matched(req[r]) /\ req[r].pc = "done"
    /\ Len(req[r].topMatches) > 3
    /\ req[r].topMatches[1]._score < EMB_THRESHOLD
    /\ req[r].topMatches[1]._score > 0
    /\ Len(req[r].context) = 3

Canned == "I don't have a specific answer for that. Would you like me to notify the host?"

\* C7: when the generative fallback returns for a request, the source is llm_fallback
\* exactly when the call succeeded with a text that is not empty once trimmed; the
\* source is fallback with the canned message otherwise; and the status is never an
\* error
C7_FallbackOutcome ==
  [][\A r \in ReqIds, a \in ChatAnswers(FallbackContents) :
       FallbackReturn(r, a) =>
         LET text == a.ok /\ Trim(a.content) # ""
         IN  /\ req'[r].source = "llm_fallback" <=> text
             /\ text => req'[r].reply = Trim(a.content) /\ req'[r].pc = "done"
             /\ ~text => req'[r].source = "fallback" /\ req'[r].draft = Canned
             /\ req'[r].status \in {0, 200}
             /\ req'[r].pc = "done" => req'[r].status = 200]_vars

\* a request whose generative fallback gave no usable text, answered with the canned
\* message
C7_Witness ==
  \E r \in ReqIds :
    /\ req[r].pc = "done" /\ req[r].status = 200 /\ req[r].source = "fallback"
    /\ Consulted(req[r], "openai:fallback") /\ req[r].reply = Canned

Sources == { "local_guide_nearest", "local_guide", "google_places_legacy", "places_missing_latlng",
             "google_places_error", "faq", "llm_fallback", "fallback" }

\* the request carries an apartment id and a message
Complete(q) == q.apt # "" /\ q.msg # ""

PlacesFailure(a) == ~(a.ok /\ a.status \in {"OK", "ZERO_RESULTS"})

\* the items of the request's pool that have an embedding
EmbeddedOf(q, items) == { i \in 1..Len(q.combined) : items[q.combined[i]].embedding # <<>> }

\* C10 as stated: a failed places lookup, a failed embedding of the message and a
\* failed embedding of a candidate each count as no match, and the request goes on to
\* the next stage
C10_AsStated ==
  [][\A r \in ReqIds :
       /\ \A a \in PlacesAnswers :
            (PlacesReturn(r, a) /\ PlacesFailure(a))
              => /\ Consulted(req'[r], "findBestMatches")
                 /\ req'[r].source # "google_places_error"
       /\ EmbedUserReturn(r, FALSE) => Consulted(req'[r], "callLLMFallback")
       /\ EmbedFaqReturn(r, FALSE) => req'[r].status # 500]_vars

\* C10: a failed embedding of the message gives an empty ranked list and the request
\* goes on to the generative fallback; a failed embedding of a candidate leaves that
\* candidate out of the scoring and the request goes on with the next candidate or the
\* scoring; a failed places lookup ends the request at that stage with source
\* google_places_error and the normal status, the FAQ matcher not being consulted
C10_FailuresAbsorbed ==
  [][\A r \in ReqIds :
       /\ EmbedUserReturn(r, FALSE)
            => /\ req'[r].topMatches = <<>>
               /\ req'[r].pc = "llm"
               /\ Consulted(req'[r], "callLLMFallback")
               /\ req'[r].status = 0
       /\ EmbedFaqReturn(r, FALSE)
            => /\ faqItems'[req[r].combined[req[r].idx]].embedding = <<>>
               /\ req'[r].status \in {0, 200}
               /\ req'[r].pc = "embCand" => req'[r].idx > req[r].idx
               /\ req'[r].pc # "embCand"
                    => /\ Len(req'[r].topMatches) = Min(TopK, Cardinality(EmbeddedOf(req[r], faqItems')))
                       /\ req'[r].source = "faq" \/ Consulted(req'[r], "callLLMFallback")
       /\ \A a \in PlacesAnswers :
            (PlacesReturn(r, a) /\ PlacesFailure(a))
              => /\ req'[r].source = "google_places_error"
                 /\ req'[r].draft = PlacesErrorText
                 /\ req'[r].status \in {0, 200}
                 /\ ~Consulted(req'[r], "findBestMatches")]_vars

\* a request answered from the FAQ although a candidate of its pool has no embedding
C10_Witness ==
  \E r \in ReqIds :
    /\ req[r].pc = "done" /\ req[r].source = "faq"
    /\ Consulted(req[r], "openai:embed_faq")
    /\ \E i \in 1..Len(req[r].combined) : faqItems[req[r].combined[i]].embedding = <<>>
    /\ Len(req[r].topMatches) < Len(req[r].combined)

(***************************************************************************)
(* Properties of the reply's language                                      *)
(***************************************************************************)
\* the request has its reply
Replied(q) == q.pc = "done" /\ q.status = 200

\* C11 as stated: the reply of every source is passed through translateText before it
\* is returned exactly when the detected language is not "en"
C11_AsStated ==
  \A r \in ReqIds :
    LET q == req[r]
    IN  Replied(q) => (Consulted(q, "translateText") <=> q.lang # "en")

\* C11: the reply of every source other than llm_fallback is passed through
\* translateText before it is returned exactly when the detected language is not "en",
\* and the translator is asked exactly when that text is not empty; the reply of source
\* llm_fallback is never passed through translateText, whatever the language
C11_TranslatedUnlessGenerated ==
  \A r \in ReqIds :
    LET q == req[r]
    IN  /\ q.pc = "translate" => (q.lang # "en" /\ q.draft # "" /\ q.source \in Sources \ {"llm_fallback"})
        /\ Replied(q)
             => /\ q.source \in Sources
                /\ Consulted(q, "translateText") <=> (q.lang # "en" /\ q.source # "llm_fallback")
                /\ Consulted(q, "openai:translate")
                     <=> (q.lang # "en" /\ q.source # "llm_fallback" /\ q.draft # "")

\* the canned reply to a message that is not in English, returned as the translator
\* gave it
C11_Witness ==
  \E r \in ReqIds :
    /\ Replied(req[r]) /\ req[r].source = "fallback" /\ req[r].lang = "de"
    /\ Consulted(req[r], "translateText") /\ Consulted(req[r], "openai:translate")
    /\ req[r].reply = "(translated)"

\* C12: when detectLanguage fails the language is "en", translateText is not called for
\* the request, and the request takes the route of a message detected as English; when
\* the translator fails or gives no text the reply is the untranslated text, with the
\* source the reply had before the translation
C12_DegradesToOriginal ==
  /\ [][\A r \in ReqIds :
          /\ (req[r].pc = "lang" /\ LangReturn(r, ChatFailure))
               => /\ req'[r].lang = "en"
                  /\ ~Consulted(req'[r], "translateText")
                  /\ ~Consulted(req'[r], "openai:translate")
                  /\ req'[r].pc # "translate"
                  /\ \E english \in { Route([req[r] EXCEPT !.lang = LangToken("en")]) } :
                       req'[r] = english.q /\ placesCache' = english.cache
          /\ \A a \in ChatAnswers(TranslateContents) :
               (req[r].pc = "translate" /\ TranslateReturn(r, a) /\ (~a.ok \/ Trim(a.content) = ""))
                 => /\ req'[r].reply = req[r].draft
                    /\ req[r].draft # ""
                    /\ req'[r].source = req[r].source
                    /\ req'[r].place = req[r].place
                    /\ Replied(req'[r])]_vars
  /\ [](\A r \in ReqIds :
          req[r].lang = "en" => /\ ~Consulted(req[r], "translateText")
                                /\ ~Consulted(req[r], "openai:translate")
                                /\ req[r].pc # "translate")

\* a reply to a message that is not in English, returned untranslated after the
\* translator was asked
C12_Witness ==
  \E r \in ReqIds :
    /\ Replied(req[r]) /\ req[r].lang = "de" /\ req[r].source = "local_guide"
    /\ Consulted(req[r], "openai:translate")
    /\ req[r].reply = req[r].draft /\ req[r].draft # ""

(***************************************************************************)
(* Properties of the FAQ matcher's failures                                *)
(***************************************************************************)
\* findBestMatches had candidates for the request and the embedding of its message
\* failed
UserEmbeddingFailed(q) ==
  /\ Consulted(q, "findBestMatches") /\ q.combined # <<>>
  /\ q.pc # "embUser" /\ q.userEmb = Null

\* C13: when the embedding of the user's message fails, no candidate's embedding is
\* asked for the request, the ranked list is empty, the source is never faq, and the
\* generative fallback is called with an empty context
C13_UserEmbeddingFailure ==
  /\ [][\A r \in ReqIds :
          (req[r].pc = "embUser" /\ EmbedUserReturn(r, FALSE))
            => /\ UserEmbeddingFailed(req'[r])
               /\ req'[r].pc = "llm"
               /\ faqItems' = faqItems]_vars
  /\ [](\A r \in ReqIds :
          LET q == req[r]
          IN  UserEmbeddingFailed(q)
                => /\ ~Consulted(q, "openai:embed_faq")
                   /\ q.topMatches = <<>>
                   /\ q.source \in {"", "llm_fallback", "fallback"}
                   /\ Consulted(q, "callLLMFallback")
                   /\ q.context = <<>>
                   /\ q.pc \in {"llm", "translate", "done"})

\* a request answered by the generative fallback after the embedding of its message
\* failed, its candidates being left without an embedding
C13_Witness ==
  \E r \in ReqIds :
    /\ Replied(req[r]) /\ UserEmbeddingFailed(req[r])
    /\ Consulted(req[r], "openai:embed_user")
    /\ req[r].source = "llm_fallback"
    /\ \A i \in 1..Len(req[r].combined) : faqItems[req[r].combined[i]].embedding = Null

(***************************************************************************)
(* Properties of the dataset and its reload                                *)
(***************************************************************************)
\* the candidates findBestMatches would take for the apartment from the dataset now
CurrentPool(apt) == (IF apt \in DOMAIN FAQ_DATA THEN FAQ_DATA[apt] ELSE <<>>) \o GLOBAL_FAQS

\* C14: a request reads the local guide, the apartments and the FAQs of one dataset:
\* the step in which it takes its FAQ candidates is the step in which its routing
\* stages read the local guide and the apartments, no reload takes place within that
\* step, and what the request has read is not read again while reloads go on
C14_OneSnapshot ==
  [][\A r \in ReqIds :
       LET q == req[r]
           after == req'[r]
       IN  /\ (Routed(after) /\ ~Routed(q))
                => /\ after.seenGuide = LOCAL_GUIDE
                   /\ after.seenApartments = APARTMENTS
                   /\ UNCHANGED dataVars
           /\ (Consulted(after, "findBestMatches") /\ ~Consulted(q, "findBestMatches"))
                => /\ ~Routed(q)
                   /\ after.combined = CurrentPool(q.apt)
                   /\ UNCHANGED dataVars
           /\ Routed(q)
                => /\ after.seenGuide = q.seenGuide
                   /\ after.seenApartments = q.seenApartments
                   /\ after.combined = q.combined]_vars

\* a request answered from the FAQs it took before a reload replaced the local guide and
\* the FAQs
C14_Witness ==
  \E r \in ReqIds :
    /\ Replied(req[r]) /\ req[r].source = "faq"
    /\ req[r].seenGuide # LOCAL_GUIDE
    /\ req[r].combined # CurrentPool(req[r].apt)
    /\ \E k \in LoadIds : k # 0 /\ loads[k] = "done"

\* the three sheets are in memory
FullyLoaded == LOCAL_GUIDE = SheetLocalGuide /\ APARTMENTS = SheetApartments /\ GLOBAL_FAQS # <<>>

\* C15 as stated, for a load that finds the three sheets in memory: the load replaces
\* the dataset only when the three sheets were fetched; when the read of one of them
\* fails, or the credentials are missing, or the authorization fails, the four
\* collections keep their contents
C15_AsStated ==
  [][\A k \in LoadIds :
       FullyLoaded
         => /\ (loads[k] = "idle" /\ StartLoad(k) /\ ~env.sheetsCreds) => UNCHANGED dataVars
            /\ (loads[k] = "loading" /\ AuthorizeFails(k)) => UNCHANGED dataVars
            /\ \A lg \in LocalGuideReads, ap \in ApartmentsReads, fq \in FaqsReads :
                 (loads[k] = "loading" /\ SheetsReturn(k, lg, ap, fq)
                    /\ (lg = <<>> \/ ap = <<>> \/ fq = <<>>))
                   => UNCHANGED dataVars]_vars

(***************************************************************************)
(* Properties of directions questions                                      *)
(***************************************************************************)
\* a keyword of the generic-nearby classifier is in the lowercased message
HasNearbyKeyword(message) ==
  \E i \in 1..Len(NearbyKeywordGroups) :
    \E w \in NearbyKeywordGroups[i].words : Includes(ToLowerCase(message), w)

\* C17: for a request whose message is a directions question the generic-nearby
\* classifier yields no intent, whatever the local guide; getNearbyPlaces is not called,
\* the places provider is not asked, and the source is none of google_places_legacy,
\* google_places_error and places_missing_latlng, also when the message holds a keyword
\* of the classifier
C17_DirectionsNeverNearby ==
  \A r \in ReqIds :
    LET q == req[r]
    IN  (q.pc # "idle" /\ isDirectionsQuestion(q.msg))
          => /\ detectNearbyIntentIn(q.seenGuide, q.msg) = NoIntent
             /\ ~Consulted(q, "getNearbyPlaces")
             /\ ~Consulted(q, "google:places")
             /\ q.pc # "places"
             /\ q.cacheKey = ""
             /\ q.source \notin PlacesSources

\* a directions question with the keyword of a category, passed by the classifier to
\* the FAQ matcher and the generative fallback
C17_Witness ==
  \E r \in ReqIds :
    /\ Replied(req[r]) /\ isDirectionsQuestion(req[r].msg) /\ HasNearbyKeyword(req[r].msg)
    /\ Consulted(req[r], "detectNearbyIntent")
    /\ Consulted(req[r], "findBestMatches")
    /\ req[r].source \in {"llm_fallback", "fallback"}

(***************************************************************************)
(* Guests at the same time, reloads in progress, calls that return          *)
(***************************************************************************)
LiveApts == { "A1" }

LiveMessages == { "nearest pharmacy", "checkout time" }

\* the FAQs sheet with its first two rows only
LiveFaqs == SubSeq(SheetFaqs, 1, 2)

\* every key and credential is set
InitLive == Init /\ env = [openaiKey |-> TRUE, placesKey |-> TRUE, sheetsCreds |-> TRUE]

LoaderStepLive ==
  \/ \E k \in LoadIds : AdminReload(k)
  \/ \E k \in LoadIds : AuthorizeFails(k)
  \/ \E k \in LoadIds : SheetsReturn(k, SheetLocalGuide, SheetApartments, LiveFaqs)

NextLive ==
  \/ \E r \in ReqIds, apt \in LiveApts, m \in LiveMessages : Receive(r, apt, m)
  \/ \E r \in ReqIds : ReturnStep(r)
  \/ LoaderStepLive

\* the request waits for a call to return: one of the return steps is then possible,
\* the failure of the call at least
Waiting(r) == req[r].pc \in {"lang", "places", "embUser", "embCand", "llm", "translate"}

\* a step that changes the record of a waiting request: a return step of the request
Returned(r) == Waiting(r) /\ req'[r] # req[r]

\* weak fairness of the return steps of a request, written with the condition under
\* which one is possible: a call that a request waits for returns or fails in the end
ReturnsInTheEnd(r) == []<>(~Waiting(r)) \/ []<><<Returned(r)>>_vars

\* the calls of the requests and the reads of the loader return or fail in the end
SpecLive ==
  /\ InitLive /\ [][NextLive]_vars
  /\ WF_vars(LoaderStepLive)
  /\ \A r \in ReqIds : ReturnsInTheEnd(r)

CacheClockStep == 12

CacheMessages == { "good Coffee", "lunch today" }

\* the language detector answers "en"
English == [ok |-> TRUE, content |-> "en"]

\* time passes, by the half of the cache's time to live
Elapse ==
  /\ placesCache # <<>>
  /\ clock + CacheClockStep <= MaxClock
  /\ clock' = clock + CacheClockStep
  /\ UNCHANGED <<env, dataVars, faqItems, placesCache, loads, req>>

NextCache ==
  \/ \E r \in ReqIds, m \in CacheMessages : Receive(r, "A1", m)
  \/ \E r \in ReqIds : LangReturn(r, English)
  \/ \E r \in ReqIds, a \in PlacesAnswers : PlacesReturn(r, a)
  \/ SheetsReturn(0, SheetLocalGuide, SheetApartments, LiveFaqs)
  \/ Elapse

SpecCache == InitLive /\ [][NextCache]_vars

\* the request's return from detectLanguage leads it into getNearbyPlaces
LooksUp(r) == req[r].pc = "lang" /\ Consulted(req'[r], "getNearbyPlaces")

\* the hour of the provider fetch that stored the entry of the key
FetchedAt(key) == placesCache[key].expiresAt - CacheTtlHours

\* the entries of the cache other than the key's are as they were
OthersKept(key) ==
  \A k \in (DOMAIN placesCache \cup DOMAIN placesCache') \ {key} :
    k \in DOMAIN placesCache /\ k \in DOMAIN placesCache' /\ placesCache'[k] = placesCache[k]

\* C16: a lookup within 24 hours of the provider fetch that stored the key's entry is
\* answered with the stored places without asking the provider, an empty list of
\* places included; a lookup after that deletes the entry and asks the provider, whose
\* places are stored for 24 hours from their arrival; and an entry leaves the cache only
\* by such a lookup of its key
C16_CacheLifecycle ==
  /\ [][\A r \in ReqIds :
          LooksUp(r) =>
            LET q == req'[r]
                key == q.cacheKey
            IN  IF key \notin DOMAIN placesCache
                  THEN /\ Consulted(q, "google:places") /\ q.pc = "places"
                       /\ placesCache' = placesCache
                ELSE IF clock - FetchedAt(key) <= CacheTtlHours
                  THEN /\ ~Consulted(q, "google:places")
                       /\ Replied(q) /\ q.source = "google_places_legacy"
                       /\ q.draft = PlacesReplyText(q.label, placesCache[key].data)
                       /\ placesCache' = placesCache
                ELSE /\ key \notin DOMAIN placesCache'
                     /\ OthersKept(key)
                     /\ Consulted(q, "google:places") /\ q.pc = "places"]_vars
  /\ [][\A r \in ReqIds, a \in PlacesAnswers :
          (req[r].pc = "places" /\ PlacesReturn(r, a))
            => IF PlacesFailure(a)
                 THEN placesCache' = placesCache
                 ELSE /\ req[r].cacheKey \in DOMAIN placesCache'
                      /\ placesCache'[req[r].cacheKey]
                           = [data |-> a.results, expiresAt |-> clock + CacheTtlHours]
                      /\ OthersKept(req[r].cacheKey)]_vars
  /\ [][\A key \in DOMAIN placesCache :
          key \notin DOMAIN placesCache'
            => /\ clock - FetchedAt(key) > CacheTtlHours
               /\ \E r \in ReqIds : LooksUp(r) /\ req'[r].cacheKey = key]_vars

\* a lookup answered, 24 hours to the hour after the fetch, from a stored list without
\* places, the provider not being asked
C16_Witness ==
  \E r \in ReqIds :
    /\ Replied(req[r]) /\ req[r].source = "google_places_legacy"
    /\ Consulted(req[r], "getNearbyPlaces") /\ ~Consulted(req[r], "google:places")
    /\ req[r].cacheKey \in DOMAIN placesCache
    /\ placesCache[req[r].cacheKey].data = <<>>
    /\ clock = placesCache[req[r].cacheKey].expiresAt


(***************************************************************************)
(* Properties of the embeddings of the FAQ items                           *)
(***************************************************************************)
\* C18 as stated: with guests at the same time, once an FAQ item holds an embedding no
\* later write of any request makes it absent again
C18_AsStated ==
  [][\A i \in 1..Len(faqItems) :
       faqItems[i].embedding # Null => faqItems'[i].embedding # Null]_vars


\* the request has scored the candidate at position p of its pool
Scored(q, p) ==
  \E k \in 1..Len(q.topMatches) : q.topMatches[k].question = faqItems[q.combined[p]].question

\* C19 as stated: with guests at the same time, every candidate whose embedding a request
\* found present or fetched itself is scored in that request; the failure of another
\* request's embedding call does not remove it
C19_AsStated ==
  \A r \in ReqIds :
    LET q == req[r]
    IN  (Matched(q) /\ q.userEmb # Null /\ Len(q.combined) <= TopK)
          => \A p \in q.had : Scored(q, p)


(***************************************************************************)
(* findLocalGuidePlace on its own                                          *)
(***************************************************************************)
\* the words of three letters a message repeats
OverlapTokens == 21

RECURSIVE Repeat(_, _)
Repeat(s, n) == IF n = 0 THEN "" ELSE s \o Repeat(s, n - 1)

GuideRow(apt, name) ==
  [apt_id |-> apt, category |-> "cafe", name |-> name, distance |-> "", description |-> "",
   maps_link |-> ""]

\* local guides: the sheet, two entries of which one name is part of the other,
\* entries of other scopes, and entries whose names are the same once normalized
PlaceGuides ==
  { SheetLocalGuide,
    << GuideRow("A1", "A"), GuideRow("ALL", "Abcd") >>,
    << GuideRow("A2", "Corner Cash"), GuideRow(" all ", "City-ATM!"), GuideRow("A1", " ") >>,
    << GuideRow("A1", "Blue Door Cafe"), GuideRow("A1", "Blue Door") >>,
    << GuideRow("ALL", "SPAR"), GuideRow("A1", "Spar"), GuideRow("A2", "spar!") >> }

PlaceMessages ==
  { "Where is SPAR?", "corner cash", "how do i get to the city atm", "spar or city atm",
    "blue door cafe", "the door of the blue cafe", "a cafe", "abcd",
    Repeat("abc ", OverlapTokens - 1), Repeat("abc ", OverlapTokens),
    Repeat("abc ", 5), Repeat("abc ", 6) }

\* a request at stage 2 of the handler, for every local guide, apartment and message
InitPlace ==
  /\ env = [openaiKey |-> TRUE, placesKey |-> TRUE, sheetsCreds |-> TRUE]
  /\ FAQ_DATA = <<>>
  /\ GLOBAL_FAQS = <<>>
  /\ APARTMENTS = <<>>
  /\ faqItems = <<>>
  /\ placesCache = <<>>
  /\ clock = 0
  /\ loads = [k \in LoadIds |-> IF k = 0 THEN "done" ELSE "idle"]
  /\ \E lg \in PlaceGuides, apt \in {"A1", "A2", "B9"}, m \in PlaceMessages :
       /\ LOCAL_GUIDE = lg
       /\ req = [r \in ReqIds |-> IF r = 1 THEN [IdleReq EXCEPT !.pc = "named", !.apt = apt, !.msg = m]
                                           ELSE IdleReq]

\* const matchedPlace = findLocalGuidePlace(apt, message)
FindPlace(r) ==
  /\ req[r].pc = "named"
  /\ req' = [req EXCEPT ![r] = [@ EXCEPT !.pc = "matched",
                                         !.place = findLocalGuidePlaceIn(LOCAL_GUIDE, req[r].apt,
                                                                         req[r].msg)]]
  /\ UNCHANGED <<env, dataVars, faqItems, placesCache, clock, loads>>

NextPlace == \E r \in ReqIds : FindPlace(r)

SpecPlace == InitPlace /\ [][NextPlace]_vars

\* C20 as stated: when the normalized message holds the whole normalized name of an
\* entry scoped to the apartment or to ALL, findLocalGuidePlace returns an entry, and
\* one whose normalized name is in the message
C20_AsStated ==
  \A r \in ReqIds :
    LET q == req[r]
    IN  (q.pc = "matched" /\ NamesScopedEntry(LOCAL_GUIDE, q.apt, q.msg))
          => /\ IsRow(q.place)
             /\ norm(q.place.name) # ""
             /\ Includes(norm(q.msg), norm(q.place.name))

(***************************************************************************)
(* The entry findLocalGuidePlace returns                                   *)
(***************************************************************************)
\* the positions of the local guide in the apartment's scope with a name left after
\* normalization
NamedInScope(lg, apt) ==
  { k \in 1..Len(lg) :
      /\ Trim(lg[k].apt_id) = Trim(apt) \/ ToUpperCase(Trim(lg[k].apt_id)) = "ALL"
      /\ norm(Trim(lg[k].name)) # "" }

ScoreAt(lg, k, message) ==
  PlaceScore(norm(Trim(lg[k].name)), norm(message), isDirectionsQuestion(message))

\* the words of three or more characters of the message that are part of the name
TokenHits(name, message) ==
  LET words == SplitSpace(norm(message))
  IN  Cardinality({ i \in 1..Len(words) :
                      Len(words[i]) >= 3 /\ Includes(norm(Trim(name)), words[i]) })

\* position k holds the greatest score of the set and no earlier position holds it
FirstOfBest(lg, ks, k, message) ==
  /\ k \in ks
  /\ \A j \in ks : /\ ScoreAt(lg, j, message) <= ScoreAt(lg, k, message)
                   /\ j < k => ScoreAt(lg, j, message) < ScoreAt(lg, k, message)

\* C21: findLocalGuidePlace returns the entry that comes first in dataset order among
\* the scoped entries with the greatest score; it returns none exactly when no scoped
\* entry has a name left after normalization or the greatest score is below 30; a
\* message that is no directions question, with fewer than six token hits on every
\* entry and with no entry's whole name in it, gets none
C21_FirstOfBest ==
  \A r \in ReqIds :
    LET q == req[r]
    IN  q.pc = "matched" =>
          /\ ~IsRow(q.place)
               <=> \A k \in NamedInScope(LOCAL_GUIDE, q.apt) :
                     ScoreAt(LOCAL_GUIDE, k, q.msg) < PlaceScoreFloor
          /\ IsRow(q.place)
               => \E k \in NamedInScope(LOCAL_GUIDE, q.apt) :
                    /\ FirstOfBest(LOCAL_GUIDE, NamedInScope(LOCAL_GUIDE, q.apt), k, q.msg)
                    /\ q.place = LOCAL_GUIDE[k]
          /\ ( /\ ~isDirectionsQuestion(q.msg)
               /\ \A k \in NamedInScope(LOCAL_GUIDE, q.apt) :
                    /\ TokenHits(LOCAL_GUIDE[k].name, q.msg) < 6
                    /\ ~Includes(norm(q.msg), norm(Trim(LOCAL_GUIDE[k].name))) )
               => ~IsRow(q.place)

\* two scoped entries share the greatest score and the earlier one was returned
C21_Witness ==
  \E r \in ReqIds :
    LET q == req[r]
    IN  /\ q.pc = "matched"
        /\ IsRow(q.place)
        /\ \E j, k \in NamedInScope(LOCAL_GUIDE, q.apt) :
             /\ j < k
             /\ ScoreAt(LOCAL_GUIDE, j, q.msg) = ScoreAt(LOCAL_GUIDE, k, q.msg)
             /\ FirstOfBest(LOCAL_GUIDE, NamedInScope(LOCAL_GUIDE, q.apt), j, q.msg)
             /\ q.place = LOCAL_GUIDE[j]
             /\ q.place # LOCAL_GUIDE[k]

(***************************************************************************)
(* getNearestFromLocalGuide on its own                                     *)
(***************************************************************************)
NearRow(apt, category, name, distance) ==
  [apt_id |-> apt, category |-> category, name |-> name, distance |-> distance,
   description |-> "", maps_link |-> ""]

\* local guides: distances in the units distanceToMetres knows, without a distance, in
\* words, and with a point before the first digit
NearestGuides ==
  { << NearRow("A1", "ATM", "One", "0.5 km"), NearRow(" A1 ", " atm", "Two", "300 m"),
       NearRow("A1", "Cafe", "Three", "1 min"), NearRow("ALL", "atm", "Four", "10 m"),
       NearRow("A2", "atm", "Five", "") >>,
    << NearRow("A1", "atm", "Dot", "approx. 2 blocks"), NearRow("A1", "atm", "Near", "100 m") >>,
    << NearRow("A1", "atm", "Far", "500 m"), NearRow("A1", "atm", "Dot", "."),
       NearRow("A1", "atm", "Near", "100 m") >>,
    << NearRow("A1", "atm", "None", ""), NearRow("A1", "atm", "Walk", "2 mins"),
       NearRow("A1", "atm", "Same", "160 m"), NearRow("A1", "atm", "Text", "around the corner") >>,
    << >> }

\* a request at stage 1 of the handler, for every local guide, apartment and message
InitNearest ==
  /\ env = [openaiKey |-> TRUE, placesKey |-> TRUE, sheetsCreds |-> TRUE]
  /\ FAQ_DATA = <<>>
  /\ GLOBAL_FAQS = <<>>
  /\ APARTMENTS = <<>>
  /\ faqItems = <<>>
  /\ placesCache = <<>>
  /\ clock = 0
  /\ loads = [k \in LoadIds |-> IF k = 0 THEN "done" ELSE "idle"]
  /\ \E lg \in NearestGuides, apt \in {"A1", "A2", "B9"},
        m \in {"nearest atm", "Where is the nearest ATM?", "closest cafe", "nearest pharmacy"} :
       /\ LOCAL_GUIDE = lg
       /\ req = [r \in ReqIds |->
                  IF r = 1 THEN [IdleReq EXCEPT !.pc = "nearest", !.apt = apt, !.msg = m,
                                                !.seenGuide = lg]
                           ELSE IdleReq]

\* const nearestRow = getNearestFromLocalGuide(apt, nearest.category)
FindNearest(r) ==
  /\ req[r].pc = "nearest"
  /\ req' = [req EXCEPT ![r] = [@ EXCEPT !.pc = "resolved",
                                         !.place = getNearestFromLocalGuideIn(
                                                     LOCAL_GUIDE, req[r].apt,
                                                     detectNearestCategoryIntent(req[r].msg).category)]]
  /\ UNCHANGED <<env, dataVars, faqItems, placesCache, clock, loads>>

NextNearest == \E r \in ReqIds : FindNearest(r)

SpecNearest == InitNearest /\ [][NextNearest]_vars

\* the positions of the apartment's entries of the category the message asks for
OfCategory(lg, apt, message) ==
  { k \in 1..Len(lg) :
      /\ Trim(lg[k].apt_id) = Trim(apt)
      /\ ToLowerCase(Trim(lg[k].category))
           = ToLowerCase(Trim(detectNearestCategoryIntent(message).category)) }

Unparsable(row) == distanceToMetres(row.distance) \in {Infinity, NaN}

\* the parsed distance, an unparsable text counting as positive infinity
ParsedMetres(row) == IF Unparsable(row) THEN Infinity ELSE distanceToMetres(row.distance)

\* C22 as stated: getNearestFromLocalGuide returns none exactly when the apartment has
\* no entry of the requested category (compared trimmed and without case); otherwise
\* it returns such an entry whose parsed distance is at most that of every other such
\* entry, so an entry with an unparsable distance is returned only when every such
\* entry's distance is unparsable; and LOCAL_GUIDE keeps its order
C22_AsStated ==
  \A r \in ReqIds :
    LET q == req[r]
    IN  q.pc = "resolved" =>
          /\ ~IsRow(q.place) <=> OfCategory(LOCAL_GUIDE, q.apt, q.msg) = {}
          /\ IsRow(q.place)
               => /\ \E k \in OfCategory(LOCAL_GUIDE, q.apt, q.msg) :
                       /\ q.place = LOCAL_GUIDE[k]
                       /\ \A j \in OfCategory(LOCAL_GUIDE, q.apt, q.msg) :
                            ParsedMetres(LOCAL_GUIDE[k]) <= ParsedMetres(LOCAL_GUIDE[j])
                  /\ Unparsable(q.place)
                       => \A j \in OfCategory(LOCAL_GUIDE, q.apt, q.msg) :
                            Unparsable(LOCAL_GUIDE[j])
          /\ LOCAL_GUIDE = q.seenGuide

(***************************************************************************)
(* The places cache and a lookup that fails                                *)
(***************************************************************************)
\* the process with and without the key of the places provider
InitCacheEnv == Init /\ env.openaiKey /\ env.sheetsCreds

\* the guests of the cache specification in these environments
SpecCacheEnv == InitCacheEnv /\ [][NextCache]_vars

\* the request's lookup has failed: getNearbyPlaces threw
LookupFailed(q) == q.source = "google_places_error"

\* the step is the return of the provider's failure to the request
FailedReturn(r) == req[r].pc = "places" /\ LookupFailed(req'[r])

\* the step is a lookup of the request for which cacheGet has no entry in time
Misses(r) ==
  /\ LooksUp(r)
  /\ req'[r].cacheKey \in DOMAIN placesCache
       => clock > placesCache[req'[r].cacheKey].expiresAt

CountOf(q, what) == Cardinality({ i \in 1..Len(q.log) : q.log[i] = what })

\* the functions that call out once, and the calls they send
SingleCalls ==
  { "detectLanguage", "openai:detect", "getNearbyPlaces", "google:places",
    "callLLMFallback", "openai:fallback", "translateText", "openai:translate",
    "findBestMatches", "openai:embed_user" }

\* the step sends the request's getEmbedding(f.question) for a candidate
AsksCandidate(r) ==
  CountOf(req'[r], "openai:embed_faq") > CountOf(req[r], "openai:embed_faq")

\* C23: a request makes at most one language-detection call, one places lookup, one
\* generative-fallback call, one translation call and one embedding call for the
\* message, and at most one embedding call for each FAQ candidate: the candidates of
\* its pool are distinct items, each call is for a later position of the pool than the
\* call before, and no call is sent a second time, whether it failed or not
C23_NoRetry ==
  /\ [](\A r \in ReqIds :
          LET q == req[r]
          IN  /\ \A what \in SingleCalls : CountOf(q, what) <= 1
              /\ \A i, j \in 1..Len(q.combined) : q.combined[i] = q.combined[j] => i = j
              /\ CountOf(q, "openai:embed_faq") <= q.idx
              /\ q.idx <= Len(q.combined))
  /\ [][\A r \in ReqIds :
          AsksCandidate(r)
            => /\ CountOf(req'[r], "openai:embed_faq") = CountOf(req[r], "openai:embed_faq") + 1
               /\ req'[r].idx > req[r].idx
               /\ req'[r].combined = req[r].combined \/ req[r].combined = <<>>]_vars

\* a request answered after the embedding call of one of its candidates failed and
\* those of all its candidates were sent, each once
C23_Witness ==
  \E r \in ReqIds :
    LET q == req[r]
    IN  /\ Replied(q)
        /\ Len(q.combined) >= 2
        /\ CountOf(q, "openai:embed_faq") = Len(q.combined)
        /\ \E p \in 1..Len(q.combined) : faqItems[q.combined[p]].embedding = Null
        /\ CountOf(q, "openai:detect") = 1 /\ CountOf(q, "openai:embed_user") = 1

(***************************************************************************)
(* The local guide of another apartment                                    *)
(***************************************************************************)
\* what the LocalGuide sheet may hold at a load: the sheet, and the sheet with one
\* more entry, of apartment A2
GuideVariants ==
  { SheetLocalGuide, SheetLocalGuide \o << NearRow("A2", "cafe", "Good Coffee", "50 m") >> }

\* two guests of A1 and A2, every key set, the sheet changing between the loads
NextGuide ==
  \/ \E r \in ReqIds, apt \in {"A1", "A2"}, m \in CacheMessages : Receive(r, apt, m)
  \/ \E r \in ReqIds : LangReturn(r, English)
  \/ \E r \in ReqIds, a \in PlacesAnswers : PlacesReturn(r, a)
  \/ \E r \in ReqIds, ok \in BOOLEAN : EmbedUserReturn(r, ok)
  \/ \E r \in ReqIds, ok \in BOOLEAN : EmbedFaqReturn(r, ok)
  \/ \E r \in ReqIds, a \in ChatAnswers(FallbackContents) : FallbackReturn(r, a)
  \/ \E k \in LoadIds : AdminReload(k)
  \/ \E k \in LoadIds, lg \in GuideVariants : SheetsReturn(k, lg, SheetApartments, LiveFaqs)

SpecGuide == InitLive /\ [][NextGuide]_vars

\* the kind of the reply's source: the local guide, the places lookup, or the FAQ
\* matcher with its fallbacks
SourceKind(q) ==
  IF q.source \in PlacesSources THEN "places"
  ELSE IF q.source \in {"faq", "llm_fallback", "fallback"} THEN "answers"
  ELSE q.source

\* the two requests are of one apartment with one message, and the local guides they
\* read differ at most in entries scoped to other apartments
SameButOthers(q1, q2) ==
  /\ Routed(q1) /\ Routed(q2)
  /\ q1.apt = q2.apt /\ q1.msg = q2.msg /\ q1.lang = q2.lang
  /\ q1.seenApartments = q2.seenApartments
  /\ ScopedCandidates(q1.seenGuide, q1.apt) = ScopedCandidates(q2.seenGuide, q2.apt)

\* C24 as stated: two requests of apartment X with the same message, answered under
\* local guides that differ only in entries scoped to an apartment other than X and
\* other than ALL, take the same route: both or neither look up places, and their
\* replies are of the same kind of source
C24_AsStated ==
  \A r1, r2 \in ReqIds :
    SameButOthers(req[r1], req[r2])
      => /\ Consulted(req[r1], "getNearbyPlaces") <=> Consulted(req[r2], "getNearbyPlaces")
         /\ (Replied(req[r1]) /\ Replied(req[r2]))
              => SourceKind(req[r1]) = SourceKind(req[r2])

====
